---- MODULE Spec2Model ----
(***************************************************************************)
(* A model of requests-html.  The playwright module is                    *)
(* src/src/requests_html.py; the pyppeteer module is src/requests_html.py. *)
(*                                                                         *)
(* Eleven specifications share the variables of this module:               *)
(*   Spec       HTMLSession / AsyncHTMLSession objects, their browsers,    *)
(*              and HTML.render / arender / find and session.close         *)
(*              (playwright module); render runs its attempts under the    *)
(*              Retry wrapper;                                             *)
(*   SpecRetry  the Retry decorator around an arbitrary function;          *)
(*   SpecRun    AsyncHTMLSession.run over a list of coroutines;            *)
(*   SpecIter   HTML.__iter__ / HTML.next over a chain of pages;           *)
(*   SpecFn     one call of next, _make_absolute, links or find on a       *)
(*              document;                                                  *)
(*   SpecResp   the responses the sessions deliver, and response.html;     *)
(*   SpecPyp    HTMLSession.browser, HTML.render and session.close of the  *)
(*              pyppeteer module;                                          *)
(*   SpecCo     coroutines awaiting AsyncHTMLSession.browser;              *)
(*   SpecAIter  HTML.__aiter__ / __anext__ over a chain of pages;          *)
(*   SpecSym    the next_symbol lists of the pyppeteer module;             *)
(*   SpecTree   the cached parse tree of one HTML object.                  *)
(* Each specification holds the variables it does not use at their idle    *)
(* value.                                                                  *)
(***************************************************************************)
EXTENDS Integers, Sequences, FiniteSets, TLC

VARIABLES
    sessions,   \* Seq of HTMLSession objects (index = identity)
    browsers,   \* Seq of launched browsers: [session, open]
    page,       \* the driver's page object that html.page refers to
    h,          \* the HTML object under observation
    last,       \* what the last call did: its arguments, result, exception
    rPc, rTries, rBase, rI, rCalls, rSlept, rExc, rAllRaised,  \* Retry wrapper
    runPc, tasks, runResult, runExc,                       \* AsyncHTMLSession.run
    itPc, itFirst, itCur, itYielded, itExc,                \* HTML.__iter__
    fOp, fArg, fRet,                                       \* a call of a method
    rsSessions, resps, htmls, rsRet,         \* responses the sessions deliver
    pyLoop, pySess, pyLaunched, pyDoc, pyR, pyLast, pyFailed, \* pyppeteer module
    pyMade, pyHtml, pyBrowsers,      \* pyppeteer: sessions made by HTML()
    symLists, symObjs, symAdded, symLast, \* pyppeteer: next_symbol lists
    tObj, tLast, tBuilds, tFirst, tAssigned  \* the parse tree of an object

mainVars  == <<sessions, browsers, page, h, last>>
retryVars == <<rPc, rTries, rBase, rI, rCalls, rSlept, rExc, rAllRaised>>
runVars   == <<runPc, tasks, runResult, runExc>>
iterVars  == <<itPc, itFirst, itCur, itYielded, itExc>>
fnVars    == <<fOp, fArg, fRet>>
respVars  == <<rsSessions, resps, htmls, rsRet>>
pypVars   == <<pyLoop, pySess, pyLaunched, pyDoc, pyR, pyLast, pyFailed,
               pyMade, pyHtml, pyBrowsers>>
symVars   == <<symLists, symObjs, symAdded, symLast>>
treeVars  == <<tObj, tLast, tBuilds, tFirst, tAssigned>>
moreVars  == <<fnVars, respVars, pypVars, symVars, treeVars>>
notFnVars == <<respVars, pypVars, symVars, treeVars>>
notRespVars == <<fnVars, pypVars, symVars, treeVars>>
notPypVars  == <<fnVars, respVars, symVars, treeVars>>
notSymVars  == <<fnVars, respVars, pypVars, treeVars>>
notTreeVars == <<fnVars, respVars, pypVars, symVars>>
vars      == <<mainVars, retryVars, runVars, iterVars, moreVars>>

(***************************************************************************)
(* Bounds of the model.                                                    *)
(***************************************************************************)
MaxSessions == 2    \* HTMLSession objects the caller creates

(***************************************************************************)
(* Program constants and value universes.                                  *)
(***************************************************************************)
DEFAULT_ENCODING == "utf-8"
DEFAULT_URL      == "https://example.org/"
RETRY_TRIES      == 3
RETRY_BACKOFF    == 2

None     == "None"
NoAttr   == 0                       \* the attribute was never set
NoText   == ""
Urls     == {DEFAULT_URL, "https://site.test/a"}
Docs     == {"doc0"}                \* markup handed to HTML(html=...)
Contents == {"doc1"}                \* what page.content() can return
Values   == {"v1"}                  \* what page.evaluate(script) can return
Scripts  == {None, "() => 1"}

\* str.encode(encoding): the bytes remember the encoding they were made with
Encode(text, enc) == [enc |-> enc, text |-> text]
NoBytes == Encode(NoText, NoText)

NoTree == [built |-> FALSE, of |-> NoBytes]
\* PyQuery(self.lxml): the tree is a function of the bytes it was parsed from
Parse(raw) == [built |-> TRUE, of |-> raw]

(***************************************************************************)
(* The browser driver (playwright), as the module uses it.  A browser is   *)
(* [session, open], a page object [browser, open].                         *)
(***************************************************************************)
NoPageObj == [browser |-> NoAttr, open |-> FALSE]

\* chromium.launch()
Launched(brs, s) == Append(brs, [session |-> s, open |-> TRUE])
\* browser.close(): the browser, its contexts and their pages are closed
BrowserClose(brs, b) == [brs EXCEPT ![b].open = FALSE]
PageOfClosed(pg, b)  == IF pg.browser = b THEN [pg EXCEPT !.open = FALSE] ELSE pg

(***************************************************************************)
(* HTMLSession (playwright module, synchronous).                           *)
(***************************************************************************)
\* HTMLSession.__init__ / AsyncHTMLSession.__init__: no _browser and no
\* _playwright attribute yet
HTMLSession_init ==
    [kind |-> "sync", hasBrowser |-> FALSE, browser |-> NoAttr,
     playwright |-> "none"]
AsyncHTMLSession_init ==
    [kind |-> "async", hasBrowser |-> FALSE, browser |-> NoAttr,
     playwright |-> "none"]

\* what chromium.launch() can do
Launches == {"ok", "launch_raises"}

\* `not hasattr(self, "_browser")` of the browser property, negated
\* (variant: the attribute is never seen)
AlwaysLaunch(srec) == FALSE
HasBrowserAttr(srec) == srec.hasBrowser

\* HTMLSession.browser: the property, with the outcome of a launch if one
\* is made.  Returns the new sessions and browsers, the browser returned
\* (NoAttr when the access raised) and the exception.
HTMLSession_browser(sess, brs, s, launch) ==
    IF HasBrowserAttr(sess[s])
    THEN [sessions |-> sess, browsers |-> brs, b |-> sess[s].browser,
          exc |-> "none"]
    ELSE IF launch = "launch_raises"
    THEN [sessions |-> [sess EXCEPT ![s].playwright = "running"],
          browsers |-> brs, b |-> NoAttr, exc |-> "Error"]
    ELSE [sessions |-> [sess EXCEPT ![s].playwright = "running",
                                    ![s].hasBrowser = TRUE,
                                    ![s].browser = Len(brs) + 1],
          browsers |-> Launched(brs, s),
          b |-> Len(brs) + 1, exc |-> "none"]

\* The calls HTMLSession.close() makes, in order.
\* (variant: super().close() first)
CloseHttpFirst(srec) ==
    IF srec.hasBrowser
    THEN <<"session.close", "browser.close", "playwright.stop">>
    ELSE <<"session.close">>
HTMLSession_close_calls(srec) ==
    IF srec.hasBrowser
    THEN <<"browser.close", "playwright.stop", "session.close">>
    ELSE <<"session.close">>

(***************************************************************************)
(* AsyncHTMLSession (playwright module).  One coroutine uses the session:  *)
(* `await session.browser` runs to its end before the caller goes on.      *)
(***************************************************************************)
\* AsyncHTMLSession.browser
AsyncHTMLSession_browser(sess, brs, s, launch) ==
    IF sess[s].hasBrowser
    THEN [sessions |-> sess, browsers |-> brs, b |-> sess[s].browser,
          exc |-> "none"]
    ELSE IF launch = "launch_raises"
    THEN [sessions |-> [sess EXCEPT ![s].playwright = "running"],
          browsers |-> brs, b |-> NoAttr, exc |-> "Error"]
    ELSE [sessions |-> [sess EXCEPT ![s].playwright = "running",
                                    ![s].hasBrowser = TRUE,
                                    ![s].browser = Len(brs) + 1],
          browsers |-> Launched(brs, s),
          b |-> Len(brs) + 1, exc |-> "none"]

\* The calls AsyncHTMLSession.close() makes, in order.
AsyncHTMLSession_close_calls(srec) ==
    IF srec.hasBrowser
    THEN <<"browser.close", "playwright.stop", "session.close">>
    ELSE <<"session.close">>

(***************************************************************************)
(* HTML (playwright module).                                               *)
(***************************************************************************)
\* HTML.__init__: `session or async_ and AsyncHTMLSession() or HTMLSession()`;
\* a session given is kept, none given makes a new one.
SessionFor(session, async_, sess) ==
    IF session # NoAttr
    THEN [sid |-> session, sessions |-> sess]
    ELSE [sid |-> Len(sess) + 1,
          sessions |-> Append(sess, IF async_ THEN AsyncHTMLSession_init
                                    ELSE HTMLSession_init)]

\* the attributes HTML.__init__ and BaseParser.__init__ set (html.__dict__)
HTML_init(sid, url, raw) ==
    [session |-> sid, url |-> url, raw |-> raw, pq |-> NoTree, page |-> None]

\* BaseParser.pq: parsed once from the bytes held then, cached afterwards
BaseParser_pq(hh) == IF hh.pq.built THEN hh.pq ELSE Parse(hh.raw)

\* The driver calls of one _render attempt that can raise, and what they
\* raise: TimeoutError is the class the module imports and catches, Error
\* any other subclass of Exception.
Steps == {"new_context", "new_page", "goto", "evaluate", "content"}
Kinds == {"TimeoutError", "Error"}
Outcomes ==
    [failAt : {"none"}, kind : {"none"}, content : Contents, value : Values]
    \cup [failAt : Steps, kind : Kinds, content : {NoText}, value : {NoText}]
\* page.evaluate is called only `if script is not None`
OutcomesFor(script) ==
    {o \in Outcomes : o.failAt = "evaluate" => script # None}

\* page.goto(...): the data: URL of the markup in memory, or the page URL
DataUrl == "data:text/html"
GotoTarget(render_html, url) == IF render_html THEN DataUrl ELSE url

\* `if not keep_page: page.close(); page = None`
ClosesPage(keep_page) == ~keep_page

\* driver calls on the state st = [ctxLeft, pgLeft, nav] of a render:
\* ctxLeft / pgLeft count the contexts / pages this render opened and has
\* not closed, nav holds the targets of its page.goto calls
new_context(st) == [st EXCEPT !.ctxLeft = @ + 1]
new_page(st)    == [st EXCEPT !.pgLeft = @ + 1]
page_close(st)  == [st EXCEPT !.pgLeft = @ - 1]
\* context.close(): the context and every page that belongs to it are closed
context_close(st, pageOpen) ==
    LET s1 == IF pageOpen THEN page_close(st) ELSE st IN
    [s1 EXCEPT !.ctxLeft = @ - 1]
\* a page object whose context was closed
PageOfClosedContext(pg) == [pg EXCEPT !.open = FALSE]

\* HTML._render, one attempt (the body under @Retry()).  a are the
\* arguments; o is what the driver does.  exc is the exception that leaves
\* _render ("none": it returned); pageObj the page object returned.
HTML__render(st, a, o) ==
    LET b       == a.b
        s1      == new_context(st)
        s2      == new_page(s1)
        s3      == [s2 EXCEPT !.nav = @ \cup {GotoTarget(a.render_html, a.url)}]
        \* `page` is not bound yet when the except branch runs page.close()
        unbound == IF o.kind = "TimeoutError" THEN "UnboundLocalError" ELSE o.kind
        out(s, e, cont, res, pg) ==
            [st |-> s, exc |-> e, content |-> cont, result |-> res,
             pageObj |-> pg,
             evaluated |-> IF e = "none" /\ cont # None /\ a.script # None
                           THEN o.value ELSE None]
    IN
    IF ~a.bopen
    THEN out(st, "Error", None, None, NoPageObj)
    ELSE IF o.failAt = "new_context"
    THEN out(st, unbound, None, None, NoPageObj)
    ELSE IF o.failAt = "new_page"
    THEN out(s1, unbound, None, None, NoPageObj)
    ELSE IF o.failAt \in {"goto", "evaluate", "content"}
    THEN IF o.kind = "TimeoutError"
         THEN \* except TimeoutError: page.close(); return None, None, None
              out(page_close(s3), "none", None, None, NoPageObj)
         ELSE out(s3, o.kind, None, None, NoPageObj)
    ELSE LET closed == ClosesPage(a.keep_page)
             s4     == IF closed THEN page_close(s3) ELSE s3
         IN out(context_close(s4, ~closed), "none", o.content,
                IF a.script # None THEN o.value ELSE None,
                IF closed THEN NoPageObj
                ELSE PageOfClosedContext([browser |-> b, open |-> TRUE]))

\* `if not keep_page: await page.close(); page = None`
AClosesPage(keep_page) == ~keep_page

\* HTML._async_render, the body of the coroutine.  a are the
\* arguments; o is what the driver does.  exc is the exception that leaves
\* _render ("none": it returned); pageObj the page object returned.
HTML__async_render(st, a, o) ==
    LET b       == a.b
        s1      == new_context(st)
        s2      == new_page(s1)
        s3      == [s2 EXCEPT !.nav = @ \cup {GotoTarget(a.render_html, a.url)}]
        \* `page` is not bound yet when the except branch runs page.close()
        unbound == IF o.kind = "TimeoutError" THEN "UnboundLocalError" ELSE o.kind
        out(s, e, cont, res, pg) ==
            [st |-> s, exc |-> e, content |-> cont, result |-> res,
             pageObj |-> pg,
             evaluated |-> IF e = "none" /\ cont # None /\ a.script # None
                           THEN o.value ELSE None]
    IN
    IF ~a.bopen
    THEN out(st, "Error", None, None, NoPageObj)
    ELSE IF o.failAt = "new_context"
    THEN out(st, unbound, None, None, NoPageObj)
    ELSE IF o.failAt = "new_page"
    THEN out(s1, unbound, None, None, NoPageObj)
    ELSE IF o.failAt \in {"goto", "evaluate", "content"}
    THEN IF o.kind = "TimeoutError"
         THEN \* except TimeoutError: await page.close(); return None, None, None
              out(page_close(s3), "none", None, None, NoPageObj)
         ELSE out(s3, o.kind, None, None, NoPageObj)
    ELSE LET closed == AClosesPage(a.keep_page)
             s4     == IF closed THEN page_close(s3) ELSE s3
         IN out(context_close(s4, ~closed), "none", o.content,
                IF a.script # None THEN o.value ELSE None,
                IF closed THEN NoPageObj
                ELSE PageOfClosedContext([browser |-> b, open |-> TRUE]))

(***************************************************************************)
(* Retry (src/src/requests_html.py, 68-84).  rI counts the attempts that   *)
(* raised and were caught, rCalls the calls of the wrapped function,       *)
(* rSlept the seconds slept; rAllRaised says that every call so far raised *)
(* a subclass of Exception.                                                *)
(***************************************************************************)
\* subclasses of Exception; "BaseException" stands for the others
\* (KeyboardInterrupt, SystemExit, ...)
ExceptionClasses ==
    {"Exception", "Error", "TimeoutError", "UnboundLocalError", "KeyError",
     "AttributeError"}
\* `except Exception: pass`
Catches(exc) == exc \in ExceptionClasses

\* `for i in range(self.tries)`, counted from 1
\* (variant: one pass less)
OneTryLess(tries) == 1..(tries - 1)
RetryRange(tries) == 1..tries

RECURSIVE Pow(_, _)
Pow(b, e) == IF e = 0 THEN 1 ELSE b * Pow(b, e - 1)
\* time.sleep(self.backoff_base ** (i + 1)) after the attempt of index i
Backoff(base, i) == Pow(base, i + 1)

\* wrapper(args): the loop is entered, or is empty and the wrapper raises
Retry_begin(tries, base) ==
    /\ rTries' = tries /\ rBase' = base
    /\ rI' = 0 /\ rCalls' = 0 /\ rSlept' = 0 /\ rAllRaised' = TRUE
    /\ IF 1 \in RetryRange(tries)
       THEN rPc' = "running" /\ rExc' = "none"
       ELSE rPc' = "raised" /\ rExc' = "RuntimeError"

\* how the wrapper goes on after a call of the wrapped function that ended
\* with exc ("none": it returned)
Retry_outcome(exc) ==
    IF exc = "none" THEN "returned"
    ELSE IF ~Catches(exc) THEN "escaped"
    ELSE IF rI + 2 \in RetryRange(rTries) THEN "again"
    ELSE "exhausted"

\* one pass of the loop body: func was called and ended with exc
Retry_pass(exc) ==
    LET how == Retry_outcome(exc) IN
    /\ rCalls' = rCalls + 1
    /\ rAllRaised' = (rAllRaised /\ exc \in ExceptionClasses)
    /\ rI' = IF how \in {"again", "exhausted"} THEN rI + 1 ELSE rI
    /\ rSlept' = IF how \in {"again", "exhausted"}
                 THEN rSlept + Backoff(rBase, rI) ELSE rSlept
    /\ rPc' = CASE how = "returned" -> "returned"
                [] how = "again"    -> "running"
                [] OTHER            -> "raised"
    /\ rExc' = CASE how = "escaped"   -> exc
                 [] how = "exhausted" -> "RuntimeError"
                 [] OTHER             -> "none"
    /\ UNCHANGED <<rTries, rBase>>

(***************************************************************************)
(* The actions of Spec: one caller, one HTML object, its sessions.  While  *)
(* a render is running (rPc = "running") the caller is inside it.          *)
(***************************************************************************)
InCall == {"running", "awaiting"}

\* the locals of a wrapper call that has ended do not outlive it: the next
\* operation of the caller finds none
Retry_gone ==
    /\ rPc' = "idle" /\ rTries' = 0 /\ rBase' = 0 /\ rI' = 0 /\ rCalls' = 0
    /\ rSlept' = 0 /\ rExc' = "none" /\ rAllRaised' = TRUE

Idle == [op |-> "none", session |-> NoAttr, exc |-> "none", ret |-> None,
         content |-> None, evaluated |-> None, script |-> None,
         keep_page |-> FALSE, render_html |-> FALSE, nav |-> {}, b |-> NoAttr,
         ctxLeft |-> 0, pgLeft |-> 0, trace |-> <<>>, from |-> NoBytes]

\* render() and arender() pass `session=self.session` to the HTML they build
\* (variant: no session passed, as in the pyppeteer module's render)
NoSessionArg(hh) == NoAttr
RenderSessionArg(hh) == hh.session
ARenderSessionArg(hh) == hh.session

\* what render() leaves as the parse tree: the new HTML's _pq and _lxml
\* (None) replace the old ones
\* (variant: the old tree stays)
KeepTree(old, new) == old.pq
RenderedTree(old, new) == new.pq

\* `for k, v in html.__dict__.items(): setattr(self, k, v)`: every
\* attribute of the new HTML replaces self's
SetAttrs(self, new) ==
    [session |-> new.session, url |-> new.url, raw |-> new.raw,
     pq |-> RenderedTree(self, new), page |-> new.page]

\* HTML(html=doc, url=url, session=s, async_=async_): s = NoAttr makes a
\* new session.  It stands for session.get(url).html as well.
NewHTML(s, url, doc, async_) ==
    /\ rPc \notin InCall
    /\ s = NoAttr => Len(sessions) < MaxSessions
    /\ s # NoAttr => ~async_
    \* a program works with one kind of session, the kind of its first
    /\ s = NoAttr => (async_ <=> sessions[1].kind = "async")
    /\ LET sf == SessionFor(s, async_, sessions) IN
       /\ sessions' = sf.sessions
       /\ h' = HTML_init(sf.sid, url, Encode(doc, DEFAULT_ENCODING))
       /\ last' = [Idle EXCEPT !.op = "HTML", !.session = sf.sid]
    /\ page' = NoPageObj
    /\ Retry_gone
    /\ UNCHANGED <<browsers, runVars, iterVars, moreVars>>

\* session.browser, read by the caller
SessionBrowser(s, launch) ==
    /\ rPc \notin InCall
    /\ launch = "launch_raises" => ~sessions[s].hasBrowser
    /\ LET acc == IF sessions[s].kind = "sync"
                  THEN HTMLSession_browser(sessions, browsers, s, launch)
                  ELSE AsyncHTMLSession_browser(sessions, browsers, s, launch)
       IN
       /\ sessions' = acc.sessions
       /\ browsers' = acc.browsers
       /\ last' = [Idle EXCEPT !.op = "browser", !.session = s,
                               !.exc = acc.exc, !.b = acc.b]
    /\ Retry_gone
    /\ UNCHANGED <<page, h, runVars, iterVars, moreVars>>

\* HTMLSession.close() / AsyncHTMLSession.close()
Session_close(s) ==
    LET srec == sessions[s]
        b    == srec.browser IN
    /\ rPc \notin InCall
    /\ browsers' = IF srec.hasBrowser THEN BrowserClose(browsers, b) ELSE browsers
    /\ page'     = IF srec.hasBrowser THEN PageOfClosed(page, b) ELSE page
    /\ sessions' = [sessions EXCEPT
                      ![s].playwright = IF srec.hasBrowser THEN "stopped" ELSE @]
    /\ last' = [Idle EXCEPT !.op = "close", !.session = s,
                            !.b = IF srec.hasBrowser THEN b ELSE NoAttr,
                            !.trace = IF srec.kind = "sync"
                                      THEN HTMLSession_close_calls(srec)
                                      ELSE AsyncHTMLSession_close_calls(srec)]
    /\ Retry_gone
    /\ UNCHANGED <<h, runVars, iterVars, moreVars>>

\* html.find(...): answers from the parse tree, building it when there is none
HTML_find ==
    /\ rPc \notin InCall
    /\ h' = [h EXCEPT !.pq = BaseParser_pq(h)]
    /\ last' = [Idle EXCEPT !.op = "find", !.session = h.session,
                            !.from = BaseParser_pq(h).of]
    /\ Retry_gone
    /\ UNCHANGED <<sessions, browsers, page, runVars, iterVars, moreVars>>

\* (variant: render_html is used as it was passed)
AsPassed(url, render_html) == render_html
\* `if self.url == DEFAULT_URL: render_html = True` of render and arender
RenderHtmlFlag(url, render_html) == url = DEFAULT_URL \/ render_html

\* HTML.render(script, keep_page, render_html), up to the call of _render:
\* `self.browser = self.session.browser`, `if self.url == DEFAULT_URL`
HTML_render(script, keep_page, render_html, launch) ==
    /\ rPc \notin InCall
    /\ sessions[h.session].kind = "sync"
    /\ launch = "launch_raises" => ~sessions[h.session].hasBrowser
    /\ LET acc  == HTMLSession_browser(sessions, browsers, h.session, launch)
           call == [Idle EXCEPT !.op = "render", !.session = h.session,
                                !.script = script, !.keep_page = keep_page,
                                !.render_html =
                                    RenderHtmlFlag(h.url, render_html),
                                !.b = acc.b]
       IN
       /\ sessions' = acc.sessions
       /\ browsers' = acc.browsers
       /\ IF acc.exc # "none"
          THEN \* self.session.browser raised
               /\ last' = [call EXCEPT !.exc = acc.exc]
               /\ rPc' = "idle"
               /\ UNCHANGED <<rTries, rBase, rI, rCalls, rSlept, rExc, rAllRaised>>
          ELSE /\ last' = call
               /\ Retry_begin(RETRY_TRIES, RETRY_BACKOFF)
    /\ UNCHANGED <<page, h, runVars, iterVars, moreVars>>

\* One attempt of _render under the wrapper, and, when the wrapper is left
\* by it, the rest of render(): the new HTML, setattr, self.page.
HTML_render_attempt(o) ==
    /\ rPc = "running" /\ last.op = "render"
    /\ o \in OutcomesFor(last.script)
    /\ LET r == HTML__render(
                    [ctxLeft |-> last.ctxLeft, pgLeft |-> last.pgLeft,
                     nav |-> last.nav],
                    [b |-> last.b, bopen |-> browsers[last.b].open,
                     script |-> last.script, keep_page |-> last.keep_page,
                     url |-> h.url, render_html |-> last.render_html], o)
           how == Retry_outcome(r.exc)
           res == [last EXCEPT !.nav = r.st.nav, !.ctxLeft = r.st.ctxLeft,
                               !.pgLeft = r.st.pgLeft]
       IN
       /\ Retry_pass(r.exc)
       /\ IF how = "again"
          THEN /\ last' = res
               /\ UNCHANGED <<sessions, page, h>>
          ELSE IF how \in {"exhausted", "escaped"}
          THEN /\ last' = [res EXCEPT !.exc = IF how = "escaped" THEN r.exc
                                              ELSE "RuntimeError"]
               /\ UNCHANGED <<sessions, page, h>>
          ELSE IF r.content = None
          THEN \* content.encode(...) on None
               /\ last' = [res EXCEPT !.exc = "AttributeError"]
               /\ UNCHANGED <<sessions, page, h>>
          ELSE LET sf  == SessionFor(RenderSessionArg(h), FALSE, sessions)
                   new == HTML_init(sf.sid, h.url,
                                    Encode(r.content, DEFAULT_ENCODING))
               IN
               /\ sessions' = sf.sessions
               /\ h' = [SetAttrs(h, new) EXCEPT
                          !.page = IF r.pageObj = NoPageObj THEN None
                                   ELSE "page"]
               /\ page' = r.pageObj
               /\ last' = [res EXCEPT !.ret = r.result,
                                      !.content = r.content,
                                      !.evaluated = r.evaluated]
    /\ UNCHANGED <<browsers, runVars, iterVars, moreVars>>

\* HTML.arender(script, keep_page, render_html), up to `await
\* self._async_render(...)`.  _async_render is an `async def` under
\* @Retry(): the wrapper's one call of it returns the coroutine, and the
\* wrapper returns that; the body runs when arender awaits it.
HTML_arender(script, keep_page, render_html, launch) ==
    /\ rPc \notin InCall
    /\ sessions[h.session].kind = "async"
    /\ launch = "launch_raises" => ~sessions[h.session].hasBrowser
    /\ LET acc  == AsyncHTMLSession_browser(sessions, browsers, h.session, launch)
           call == [Idle EXCEPT !.op = "arender", !.session = h.session,
                                !.script = script, !.keep_page = keep_page,
                                !.render_html =
                                    RenderHtmlFlag(h.url, render_html),
                                !.b = acc.b]
       IN
       /\ sessions' = acc.sessions
       /\ browsers' = acc.browsers
       /\ IF acc.exc # "none"
          THEN \* await self.session.browser raised
               /\ last' = [call EXCEPT !.exc = acc.exc]
               /\ rPc' = "idle"
               /\ UNCHANGED <<rTries, rBase, rI, rCalls, rSlept, rExc, rAllRaised>>
          ELSE /\ last' = call
               /\ rTries' = RETRY_TRIES /\ rBase' = RETRY_BACKOFF
               /\ rI' = 0 /\ rCalls' = 1 /\ rSlept' = 0 /\ rExc' = "none"
               /\ rAllRaised' = FALSE
               /\ rPc' = "awaiting"
    /\ UNCHANGED <<page, h, runVars, iterVars, moreVars>>

\* The coroutine of _async_render, awaited by arender(), and the rest of
\* arender().  An exception of the body leaves arender as it is.
HTML_arender_await(o) ==
    /\ rPc = "awaiting" /\ last.op = "arender"
    /\ o \in OutcomesFor(last.script)
    /\ LET r == HTML__async_render(
                    [ctxLeft |-> last.ctxLeft, pgLeft |-> last.pgLeft,
                     nav |-> last.nav],
                    [b |-> last.b, bopen |-> browsers[last.b].open,
                     script |-> last.script, keep_page |-> last.keep_page,
                     url |-> h.url, render_html |-> last.render_html], o)
           res == [last EXCEPT !.nav = r.st.nav, !.ctxLeft = r.st.ctxLeft,
                               !.pgLeft = r.st.pgLeft]
       IN
       /\ rPc' = IF r.exc # "none" THEN "raised" ELSE "returned"
       /\ IF r.exc # "none"
          THEN /\ last' = [res EXCEPT !.exc = r.exc]
               /\ UNCHANGED <<sessions, page, h>>
          ELSE IF r.content = None
          THEN \* content.encode(...) on None
               /\ last' = [res EXCEPT !.exc = "AttributeError"]
               /\ UNCHANGED <<sessions, page, h>>
          ELSE LET sf  == SessionFor(ARenderSessionArg(h), FALSE, sessions)
                   new == HTML_init(sf.sid, h.url,
                                    Encode(r.content, DEFAULT_ENCODING))
               IN
               /\ sessions' = sf.sessions
               /\ h' = [SetAttrs(h, new) EXCEPT
                          !.page = IF r.pageObj = NoPageObj THEN None
                                   ELSE "page"]
               /\ page' = r.pageObj
               /\ last' = [res EXCEPT !.ret = r.result,
                                      !.content = r.content,
                                      !.evaluated = r.evaluated]
    /\ UNCHANGED <<browsers, rTries, rBase, rI, rCalls, rSlept, rExc,
                   rAllRaised, runVars, iterVars, moreVars>>

MainInit ==
    /\ \E async_ \in BOOLEAN :
          sessions = <<IF async_ THEN AsyncHTMLSession_init ELSE HTMLSession_init>>
    /\ browsers = <<>>
    /\ page = NoPageObj
    /\ \E url \in Urls, doc \in Docs :
          h = HTML_init(1, url, Encode(doc, DEFAULT_ENCODING))
    /\ last = [Idle EXCEPT !.op = "HTML", !.session = 1]

MainIdle ==
    /\ sessions = <<>> /\ browsers = <<>> /\ page = NoPageObj
    /\ h = HTML_init(NoAttr, DEFAULT_URL, NoBytes)
    /\ last = Idle

RetryIdle ==
    /\ rPc = "idle" /\ rTries = 0 /\ rBase = 0 /\ rI = 0 /\ rCalls = 0
    /\ rSlept = 0 /\ rExc = "none" /\ rAllRaised = TRUE

RunIdle == runPc = "idle" /\ tasks = <<>> /\ runResult = <<>> /\ runExc = "none"

IterIdle ==
    /\ itPc = "idle" /\ itFirst = NoAttr /\ itCur = NoAttr /\ itYielded = <<>>
    /\ itExc = "none"

\* no method called yet
FnIdle == fOp = "none" /\ fArg = NoAttr /\ fRet = NoAttr

NoRet == [resp |-> 0, html |-> 0]
RespIdle == rsSessions = <<>> /\ resps = <<>> /\ htmls = <<>> /\ rsRet = NoRet
PyNoRender == [pc |-> "idle", retries |-> 0, i |-> 0, content |-> None,
               attempts |-> <<>>, exc |-> "none", before |-> None,
               entered |-> FALSE, session |-> 0, browser |-> 0]
PyNoCall == [op |-> "none", exc |-> "none"]
PypIdle ==
    /\ pyLoop = FALSE
    /\ pySess = [hasBrowser |-> FALSE, loop |-> FALSE]
    /\ pyLaunched = 0
    /\ pyDoc = "doc0"
    /\ pyR = PyNoRender
    /\ pyLast = PyNoCall
    /\ pyFailed = FALSE
    /\ pyMade = <<>>
    /\ pyHtml = [session |-> 0]
    /\ pyBrowsers = <<>>
\* the module is loaded: its list DEFAULT_NEXT_SYMBOL exists, no HTML object
SymNoCall == [op |-> "none", obj |-> 0, symbols |-> <<>>]
SymIdle ==
    /\ symLists = <<<<"next", "more", "older">>>>
    /\ symObjs = <<>>
    /\ symAdded = {}
    /\ symLast = SymNoCall
\* bytes are a text in an encoding; b"" is the same in every encoding
EmptyBytes == [text |-> "", enc |-> DEFAULT_ENCODING]
\* str.encode(encoding)
str_encode(text, enc) ==
    IF text = "" THEN EmptyBytes ELSE [text |-> text, enc |-> enc]
\* bytes.decode(encoding, errors="replace"): the text, garbled when the
\* bytes were written in another encoding
bytes_decode(b, enc) ==
    [text |-> b.text, garbled |-> (b.text # "" /\ b.enc # enc)]
\* no tree yet: _lxml and _pq are None
NoLxml == [built |-> FALSE, src |-> bytes_decode(EmptyBytes, DEFAULT_ENCODING)]
\* BaseParser.__init__ under HTML.__init__, html given as bytes
Tree_init(html) ==
    [element |-> html.text, default_encoding |-> DEFAULT_ENCODING,
     _encoding |-> None, _html |-> html, _lxml |-> NoLxml, _pq |-> NoLxml]
TreeNoCall == [op |-> "none", tree |-> NoLxml]
TreeIdle ==
    /\ tObj = Tree_init(str_encode("t0", DEFAULT_ENCODING))
    /\ tLast = TreeNoCall
    /\ tBuilds = 0
    /\ tFirst = NoLxml
    /\ tAssigned = FALSE
MoreIdle == FnIdle /\ RespIdle /\ PypIdle /\ SymIdle /\ TreeIdle

Init == MainInit /\ RetryIdle /\ RunIdle /\ IterIdle /\ MoreIdle

Next ==
    \/ \E s \in {NoAttr} \cup DOMAIN sessions, url \in Urls, doc \in Docs,
          async_ \in BOOLEAN :
          NewHTML(s, url, doc, async_)
    \/ \E s \in DOMAIN sessions, launch \in Launches : SessionBrowser(s, launch)
    \/ \E s \in DOMAIN sessions : Session_close(s)
    \/ HTML_find
    \/ \E script \in Scripts, keep_page \in BOOLEAN, render_html \in BOOLEAN,
          launch \in Launches :
          HTML_render(script, keep_page, render_html, launch)
    \/ \E o \in Outcomes : HTML_render_attempt(o)
    \/ \E script \in Scripts, keep_page \in BOOLEAN, render_html \in BOOLEAN,
          launch \in Launches :
          HTML_arender(script, keep_page, render_html, launch)
    \/ \E o \in Outcomes : HTML_arender_await(o)

Spec == Init /\ [][Next]_vars

(***************************************************************************)
(* SpecRetry: the wrapper around an arbitrary function.                    *)
(***************************************************************************)
MaxTries == 5     \* Retry(tries=0..MaxTries)
MaxBase  == 2     \* Retry(backoff_base=0..MaxBase)

\* what a call of the wrapped function can do
FuncOutcomes == {"none", "Exception", "BaseException"}

\* tmp_func = Retry(tries, backoff_base)(func); tmp_func(...)
Retry_call(tries, base) ==
    /\ rPc = "idle"
    /\ Retry_begin(tries, base)
    /\ UNCHANGED <<mainVars, runVars, iterVars, moreVars>>

\* what a call of the wrapped function can return
FuncValues == {"v1", "v2"}

\* (variant: the value of the call is dropped)
ResultDropped(value) == None
\* `return func(...)`: the wrapper returns what the call returned
Retry_result(value) == value

\* the wrapper calls func, which returns value or raises exc; fRet keeps
\* what the call returned and what the wrapper returned
Retry_attempt(exc, value) ==
    /\ rPc = "running"
    /\ Retry_pass(exc)
    /\ fRet' = IF exc = "none"
               THEN [func |-> value, wrapper |-> Retry_result(value)]
               ELSE fRet
    /\ UNCHANGED <<fOp, fArg, notFnVars>>
    /\ UNCHANGED <<mainVars, runVars, iterVars>>

RetryInit == MainIdle /\ RetryIdle /\ RunIdle /\ IterIdle /\ MoreIdle

RetryNext ==
    \/ \E tries \in 0..MaxTries, base \in 0..MaxBase : Retry_call(tries, base)
    \/ \E exc \in FuncOutcomes, value \in FuncValues : Retry_attempt(exc, value)

SpecRetry == RetryInit /\ [][RetryNext]_vars

(***************************************************************************)
(* SpecRun: AsyncHTMLSession.run(coros) (src/src/requests_html.py,        *)
(* 865-871).  tasks[i] is the task of the i-th coroutine passed.           *)
(***************************************************************************)
MaxCoros == 3
RunValues == {"r1", "r2"}           \* what a coroutine can return
TaskOutcomes == [exc : {"none"}, value : RunValues]
                \cup [exc : {"Error"}, value : {None}]

\* asyncio.ensure_future(coro()): a task that has not finished
NewTask == [done |-> FALSE, exc |-> "none", value |-> None]

\* the tasks that have finished, returned or raised
DoneTasks(ts) == {i \in DOMAIN ts : ts[i].done}

\* asyncio.wait(tasks), return_when=ALL_COMPLETED by default: it returns
\* when every task has finished
\* (variant: return_when=FIRST_COMPLETED)
FirstCompleted(ts) == DoneTasks(ts) # {}
WaitReturns(ts) == DoneTasks(ts) = DOMAIN ts

\* `done` is a set: the orders in which a loop over it can meet its members
Orders(S) ==
    {f \in [1..Cardinality(S) -> S] : \A i, j \in DOMAIN f : f[i] = f[j] => i = j}

\* run(coros) up to run_until_complete(asyncio.wait(tasks)); asyncio.wait
\* raises ValueError for an empty set of tasks
Run(n) ==
    /\ runPc \in {"idle", "returned", "raised"}
    /\ tasks' = [i \in 1..n |-> NewTask]
    /\ runResult' = <<>>
    /\ IF n = 0
       THEN runPc' = "raised" /\ runExc' = "ValueError"
       ELSE runPc' = "waiting" /\ runExc' = "none"
    /\ UNCHANGED <<mainVars, retryVars, iterVars, moreVars>>

\* the event loop runs task i to its end
TaskComplete(i, out) ==
    /\ runPc = "waiting"
    /\ ~tasks[i].done
    /\ tasks' = [tasks EXCEPT ![i] = [done |-> TRUE, exc |-> out.exc,
                                      value |-> out.value]]
    /\ UNCHANGED <<runPc, runResult, runExc, mainVars, retryVars, iterVars, moreVars>>

\* asyncio.wait returns `done`; `[t.result() for t in done]` in the order
\* the set is iterated in; t.result() raises the exception of a task that
\* raised.  An entry of runResult is the value, with the task it is of.
RunReturn(order) ==
    /\ runPc = "waiting"
    /\ WaitReturns(tasks)
    /\ order \in Orders(DoneTasks(tasks))
    /\ LET raising == {k \in DOMAIN order : tasks[order[k]].exc # "none"} IN
       IF raising # {}
       THEN /\ runPc' = "raised"
            /\ runExc' = tasks[order[CHOOSE k \in raising :
                                       \A m \in raising : k <= m]].exc
            /\ runResult' = <<>>
       ELSE /\ runPc' = "returned"
            /\ runExc' = "none"
            /\ runResult' = [k \in DOMAIN order |->
                                [task |-> order[k], value |-> tasks[order[k]].value]]
    /\ UNCHANGED <<tasks, mainVars, retryVars, iterVars, moreVars>>

RunInit == MainIdle /\ RetryIdle /\ RunIdle /\ IterIdle /\ MoreIdle

RunNext ==
    \/ \E n \in 0..MaxCoros : Run(n)
    \/ \E i \in DOMAIN tasks, out \in TaskOutcomes : TaskComplete(i, out)
    \/ \E order \in Orders(DoneTasks(tasks)) : RunReturn(order)

SpecRun == RunInit /\ [][RunNext]_vars

(***************************************************************************)
(* SpecIter: `for page in html` (HTML.__iter__, HTML.next) with an         *)
(* HTMLSession.  A document is the sequence of its <a> elements in         *)
(* document order; an element has its text, its href (NoHref: no such      *)
(* attribute), whether "next" is one of its rel values and whether a class *)
(* name of it contains "next".  A URL is [scheme, netloc, path], the path  *)
(* a sequence of segments ("" after a final "/").                          *)
(***************************************************************************)
MaxAnchors == 2
MaxPages   == 3

DEFAULT_NEXT_SYMBOL == <<"next", "more", "older">>

NoHref == "NoHref"
Hrefs  == {NoHref, "", "b.html", "/page/2", "https://other.test/x"}
Texts  == {"Next", "Home"}

\* str.lower()
Lower(t) == CASE t = "Next" -> "next" [] t = "Home" -> "home" [] OTHER -> t
\* `c in text`, on the one-word texts of Texts
IsIn(c, t) == c = t

\* the <a> elements of the documents: rel and class vary on one href of
\* the elements with a next symbol, where the code reads them
Anchors ==
    {a \in [text : {"Next"}, href : {"b.html"}, rel : BOOLEAN, cls : BOOLEAN] :
        ~(a.rel /\ a.cls)}
    \cup [text : {"Next"}, href : Hrefs \ {"b.html"}, rel : {FALSE}, cls : {FALSE}]
    \cup [text : {"Home"}, href : {"b.html"}, rel : {FALSE}, cls : {FALSE}]
IterDocs == UNION {[1..n -> Anchors] : n \in 0..MaxAnchors}

\* stands for None where a URL is expected
NoUrl == [scheme |-> "", netloc |-> "", path |-> <<>>]
StartUrl == [scheme |-> "https", netloc |-> "site.test", path |-> <<"dir", "a.html">>]

\* urlparse(link) of the hrefs above and of the links and <base> hrefs
\* below; rooted: the path starts with "/". A URL string is written as its
\* components.
urlparse(link) ==
    CASE link = "b.html" ->
           [scheme |-> "", netloc |-> "", path |-> <<"b.html">>, rooted |-> FALSE]
      [] link = "/page/2" ->
           [scheme |-> "", netloc |-> "", path |-> <<"page", "2">>, rooted |-> TRUE]
      [] link = "https://other.test/x" ->
           [scheme |-> "https", netloc |-> "other.test", path |-> <<"x">>,
            rooted |-> TRUE]
      [] link = "//cdn.test/y" ->
           [scheme |-> "", netloc |-> "cdn.test", path |-> <<"y">>,
            rooted |-> TRUE]
      [] link = "mailto:a@b.test" ->
           [scheme |-> "mailto", netloc |-> "", path |-> <<"a@b.test">>,
            rooted |-> FALSE]
      [] link = "ftp://cdn.test/lib/" ->
           [scheme |-> "ftp", netloc |-> "cdn.test", path |-> <<"lib", "">>,
            rooted |-> TRUE]
      [] link = "/sub/" ->
           [scheme |-> "", netloc |-> "", path |-> <<"sub", "">>, rooted |-> TRUE]
      [] OTHER ->
           [scheme |-> "", netloc |-> "", path |-> <<>>, rooted |-> FALSE]

\* the path without what follows its last "/"
DirOf(path) ==
    IF path = <<>> THEN <<"">> ELSE Append(SubSeq(path, 1, Len(path) - 1), "")

\* BaseParser.base_url of a document without <base>: the URL with its
\* path cut after the last "/"
base_url(url) == [url EXCEPT !.path = DirOf(@)]

\* the href values of a <base> tag, and str.strip() of them
BaseHrefs == {NoHref, "", " ", "ftp://cdn.test/lib/", " ftp://cdn.test/lib/ ",
              "/sub/"}
Strip(s) ==
    CASE s = " " -> ""
      [] s = " ftp://cdn.test/lib/ " -> "ftp://cdn.test/lib/"
      [] OTHER -> s

\* (variant: the <base> tag is not looked at)
NoBaseTag(bases) == ""
\* base.attrs.get("href", "").strip() of find("base", first=True); "" when
\* the document has no <base>
BaseTagHref(bases) ==
    IF bases = <<>> \/ bases[1] = NoHref THEN "" ELSE Strip(bases[1])

\* BaseParser.base_url of a page [url, bases]
BaseParser_base_url(pg) ==
    IF BaseTagHref(pg.bases) # ""
    THEN LET b == urlparse(BaseTagHref(pg.bases)) IN
         [scheme |-> b.scheme, netloc |-> b.netloc, path |-> b.path]
    ELSE base_url(pg.url)

\* urljoin(base, link) for a link without netloc: a link with a scheme of
\* its own is returned as it is
urljoin(base, pl) ==
    IF pl.scheme # "" /\ pl.scheme # base.scheme
    THEN [scheme |-> pl.scheme, netloc |-> pl.netloc, path |-> pl.path]
    ELSE [scheme |-> base.scheme, netloc |-> base.netloc,
          path |-> IF pl.rooted THEN pl.path
                   ELSE SubSeq(base.path, 1, Len(base.path) - 1) \o pl.path]

\* BaseParser._make_absolute(link) against the base URL of the document
BaseParser_make_absolute(base, link) ==
    LET parsed == urlparse(link) IN
    IF parsed.netloc = "" THEN urljoin(base, parsed)
    ELSE IF parsed.scheme = ""
    THEN [scheme |-> base.scheme, netloc |-> parsed.netloc,
          path |-> parsed.path]
    ELSE [scheme |-> parsed.scheme, netloc |-> parsed.netloc, path |-> parsed.path]

\* BaseParser._make_absolute(link) in a document without <base>
make_absolute(url, link) == BaseParser_make_absolute(base_url(url), link)

\* (variant: the order is left as it is)
NoReverse(q) == q
Reverse(q) == [i \in 1..Len(q) |-> q[Len(q) + 1 - i]]

\* find("a", containing=symbols): the elements whose text, lowered,
\* contains a symbol, lowered; `elements.reverse()`
Containing(a, symbols) ==
    \E i \in DOMAIN symbols : IsIn(Lower(symbols[i]), Lower(a.text))
find_containing(doc, symbols) ==
    LET Keep(a) == Containing(a, symbols) IN Reverse(SelectSeq(doc, Keep))

\* `if candidate.attrs.get("href")`, `if __next`
Truthy(href) == href \notin {NoHref, ""}
\* `"page" in candidate.attrs["href"]`
HasPage(href) == href = "/page/2"

\* get_next() of HTML.next: [exc, href]; exc is the exception it raises
get_next(doc, symbols) ==
    LET candidates == find_containing(doc, symbols)
        Hit(c) == Truthy(c.href) /\ (c.rel \/ c.cls \/ HasPage(c.href))
        hits == {i \in DOMAIN candidates : Hit(candidates[i])}
    IN
    IF hits # {}
    THEN [exc |-> "none",
          href |-> candidates[CHOOSE i \in hits : \A j \in hits : i <= j].href]
    ELSE IF candidates = <<>> THEN [exc |-> "none", href |-> None]
    ELSE IF candidates[Len(candidates)].href = NoHref
    THEN \* candidates[-1].attrs["href"]
         [exc |-> "KeyError", href |-> None]
    ELSE [exc |-> "none", href |-> candidates[Len(candidates)].href]

\* HTML.next(fetch, next_symbol) up to the fetch: [exc, url]; url is NoUrl
\* when next() returns None
HTML_next(pg, symbols) ==
    LET n == get_next(pg.doc, symbols) IN
    IF n.exc # "none" THEN [exc |-> n.exc, url |-> NoUrl]
    ELSE IF n.href # None /\ Truthy(n.href)
    THEN [exc |-> "none", url |-> make_absolute(pg.url, n.href)]
    ELSE [exc |-> "none", url |-> NoUrl]

\* what session.get(url) can do: a response with a document, or raise
Fetches == [exc : {"none"}, doc : IterDocs]
           \cup {[exc |-> "ConnectionError", doc |-> <<>>]}

\* iter(html) and the first next() on it: `next = self`, `yield next`
Iter_start(doc) ==
    /\ itPc = "idle"
    /\ itFirst' = StartUrl
    /\ itCur' = [url |-> StartUrl, doc |-> doc]
    /\ itYielded' = <<StartUrl>>
    /\ itPc' = "yielded"
    /\ itExc' = "none"
    /\ UNCHANGED <<mainVars, retryVars, runVars, moreVars>>

\* one more next() on the generator, where next(fetch=True) raises or
\* returns None: `.html` of None raises AttributeError, which ends the
\* loop; any other exception leaves the generator
Iter_next_end ==
    /\ itPc = "yielded"
    /\ Len(itYielded) < MaxPages
    /\ LET n == HTML_next(itCur, DEFAULT_NEXT_SYMBOL) IN
       /\ n.exc # "none" \/ n.url = NoUrl
       /\ itPc' = IF n.exc # "none" THEN "raised" ELSE "stopped"
       /\ itExc' = n.exc
    /\ UNCHANGED <<itFirst, itCur, itYielded, mainVars, retryVars, runVars, moreVars>>

\* one more next() on the generator, where next(fetch=True) comes to
\* `return self.session.get(url)`: the page of the response is yielded
Iter_next_fetch(resp) ==
    /\ itPc = "yielded"
    /\ Len(itYielded) < MaxPages
    /\ LET n == HTML_next(itCur, DEFAULT_NEXT_SYMBOL) IN
       /\ n.exc = "none" /\ n.url # NoUrl
       /\ IF resp.exc # "none"
          THEN /\ itPc' = "raised" /\ itExc' = resp.exc
               /\ UNCHANGED <<itCur, itYielded>>
          ELSE /\ itCur' = [url |-> n.url, doc |-> resp.doc]
               /\ itYielded' = Append(itYielded, n.url)
               /\ itPc' = "yielded" /\ itExc' = "none"
    /\ UNCHANGED <<itFirst, mainVars, retryVars, runVars, moreVars>>

IterInit == MainIdle /\ RetryIdle /\ RunIdle /\ IterIdle /\ MoreIdle

IterNext ==
    \/ \E doc \in IterDocs : Iter_start(doc)
    \/ Iter_next_end
    \/ \E resp \in Fetches : Iter_next_fetch(resp)

SpecIter == IterInit /\ [][IterNext]_vars

(***************************************************************************)
(* SpecFn: one call of a method of a parsed document.  fOp names the       *)
(* method called, fArg holds its receiver and arguments, fRet what it      *)
(* returned or raised.                                                     *)
(***************************************************************************)
\* the next_symbol argument of HTML.next: not given (None), or a list
NextSymbolArgs ==
    {[given |-> FALSE, symbols |-> <<>>], [given |-> TRUE, symbols |-> <<"home">>]}

\* `if next_symbol is None: next_symbol = DEFAULT_NEXT_SYMBOL`
NextSymbolOf(arg) == IF arg.given THEN arg.symbols ELSE DEFAULT_NEXT_SYMBOL

\* html.next(fetch=False, next_symbol=arg) on the document doc at StartUrl
Call_next ==
    /\ fOp = "none"
    /\ \E doc \in IterDocs, arg \in NextSymbolArgs :
          /\ fOp' = "next"
          /\ fArg' = [url |-> StartUrl, doc |-> doc, symbols |-> NextSymbolOf(arg)]
          /\ fRet' = HTML_next([url |-> StartUrl, doc |-> doc], NextSymbolOf(arg))
          /\ UNCHANGED <<mainVars, retryVars, runVars, iterVars, notFnVars>>

\* the page URLs, the <base> tags (at most one, as HTML allows) and the
\* links _make_absolute is called with
PageUrls == {StartUrl,
             [scheme |-> "http", netloc |-> "site.test", path |-> <<>>],
             [scheme |-> "http", netloc |-> "site.test", path |-> <<"dir", "">>]}
BaseTags == {<<>>} \cup {<<b>> : b \in BaseHrefs}
Links == {"b.html", "/page/2", "https://other.test/x", "//cdn.test/y",
          "mailto:a@b.test", ""}

\* html._make_absolute(link) on HTML(url=url, html=<the base tags>)
Call_make_absolute ==
    /\ fOp = "none"
    /\ \E url \in PageUrls, bases \in BaseTags, link \in Links :
          /\ fOp' = "_make_absolute"
          /\ fArg' = [url |-> url, bases |-> bases, link |-> link]
          /\ fRet' = BaseParser_make_absolute(
                         BaseParser_base_url([url |-> url, bases |-> bases]), link)
          /\ UNCHANGED <<mainVars, retryVars, runVars, iterVars, notFnVars>>

\* the href of an anchor as a sequence of pieces: blanks around one of the
\* bodies below ("x" stands for any other text), or no href attribute
Blank == " "
NoLinkHref == <<"no href">>
HrefBodies == {<<>>, <<"#">>, <<"#", "x">>, <<"javascript:", "x">>,
               <<"mailto:", "x">>, <<"x">>, <<"x", "#">>}
LinkHrefs ==
    {NoLinkHref} \cup
    {(IF lead THEN <<Blank>> ELSE <<>>) \o body \o
     (IF trail THEN <<Blank>> ELSE <<>>) :
         lead \in BOOLEAN, body \in HrefBodies, trail \in BOOLEAN}
LinkDocs == UNION {[1..n -> LinkHrefs] : n \in 0..MaxAnchors}

\* str.strip() and str.startswith(prefix)
RECURSIVE lstrip(_)
lstrip(q) == IF q # <<>> /\ Head(q) = Blank THEN lstrip(Tail(q)) ELSE q
RECURSIVE rstrip(_)
rstrip(q) ==
    IF q # <<>> /\ q[Len(q)] = Blank THEN rstrip(SubSeq(q, 1, Len(q) - 1))
    ELSE q
str_strip(q) == rstrip(lstrip(q))
startswith(q, prefix) == q # <<>> /\ Head(q) = prefix

\* (variant: the href is taken as written)
Unstripped(href) == href
\* href = link.attrs["href"].strip()
LinkHref(href) == str_strip(href)

\* the condition under which gen() of links yields href
LinkYielded(href, skip_anchors) ==
    /\ href # <<>>
    /\ ~(startswith(href, "#") /\ skip_anchors)
    /\ ~(startswith(href, "javascript:") \/ startswith(href, "mailto:"))

\* BaseParser.links: set(gen()); an anchor without href raises KeyError,
\* which gen() passes over
BaseParser_links(doc, skip_anchors) ==
    {LinkHref(doc[i]) :
        i \in {j \in DOMAIN doc :
                  /\ doc[j] # NoLinkHref
                  /\ LinkYielded(LinkHref(doc[j]), skip_anchors)}}

\* html.skip_anchors = skip_anchors; html.links
Call_links ==
    /\ fOp = "none"
    /\ \E doc \in LinkDocs, skip_anchors \in BOOLEAN :
          /\ fOp' = "links"
          /\ fArg' = [doc |-> doc, skip_anchors |-> skip_anchors]
          /\ fRet' = BaseParser_links(doc, skip_anchors)
          /\ UNCHANGED <<mainVars, retryVars, runVars, iterVars, notFnVars>>

\* the elements of a document for find(): a tag and the full text, a
\* sequence of letters
MaxElements == 2
ElemTags == {"a", "p"}
ElemTexts == {<<>>, <<"a">>, <<"A", "b">>, <<"b">>, <<"b", "A">>}
Elems == [tag : ElemTags, text : ElemTexts]
FindDocs == UNION {[1..n -> Elems] : n \in 0..MaxElements}
Selectors == {"a", "*"}

\* the containing argument: None, one string, or a list of strings
Needles == {<<>>, <<"a">>, <<"A">>, <<"a", "b">>, <<"B">>}
NeedleLists == UNION {[1..n -> Needles \ {<<"a", "b">>}] : n \in 0..2}
ContainingNone == [kind |-> "none", val |-> <<>>]
ContainingArgs ==
    {[kind |-> "none", val |-> <<>>]} \cup
    {[kind |-> "str", val |-> c] : c \in Needles} \cup
    {[kind |-> "list", val |-> l] : l \in NeedleLists}

\* (variant: letters are compared as they are)
NoLower(q) == q
\* str.lower()
str_lower(q) ==
    [i \in DOMAIN q |-> CASE q[i] = "A" -> "a" [] q[i] = "B" -> "b" [] OTHER -> q[i]]

\* c in t, for strings
str_in(c, t) ==
    \E i \in 0..(Len(t) - Len(c)) : SubSeq(t, i + 1, i + Len(c)) = c

\* self.pq(selector): the elements the selector matches, in document order
Selected(doc, selector) ==
    SelectSeq(doc, LAMBDA e : selector = "*" \/ e.tag = selector)

\* any([c.lower() in element.full_text.lower() for c in containing])
AnyContained(e, containing) ==
    \E k \in DOMAIN containing :
        str_in(str_lower(containing[k]), str_lower(e.text))

\* BaseParser.find(selector, containing=containing)
BaseParser_find(doc, selector, arg) ==
    LET containing == IF arg.kind = "str" THEN <<arg.val>> ELSE arg.val
        elements == Selected(doc, selector) IN
    IF containing # <<>>
    THEN Reverse(SelectSeq(elements, LAMBDA e : AnyContained(e, containing)))
    ELSE elements

\* html.find(selector, containing=arg)
Call_find ==
    /\ fOp = "none"
    /\ \E doc \in FindDocs, selector \in Selectors, arg \in ContainingArgs :
          /\ fOp' = "find"
          /\ fArg' = [doc |-> doc, selector |-> selector, containing |-> arg]
          /\ fRet' = BaseParser_find(doc, selector, arg)
          /\ UNCHANGED <<mainVars, retryVars, runVars, iterVars, notFnVars>>

\* what a call returns: None, one element, or a list.  val holds the
\* elements: none, the one, or those of the list.
RetNone == [kind |-> "None", val |-> <<>>]
RetElem(e) == [kind |-> "element", val |-> <<e>>]
RetList(l) == [kind |-> "list", val |-> l]

\* _get_first_or_list of src/src/requests_html.py:
\* `return l[0] if first and l else l`
get_first_or_list(l, first) ==
    IF first /\ l # <<>> THEN RetElem(l[1]) ELSE RetList(l)
\* _get_first_or_list of src/requests_html.py and of the package: `if
\* first: try: return l[0] except IndexError: return None else: return l`
Py_get_first_or_list(l, first) ==
    IF first
    THEN IF l # <<>> THEN RetElem(l[1]) ELSE RetNone
    ELSE RetList(l)

\* html.find(selector, first=first): `return _get_first_or_list(elements,
\* first)`, beside what the other two modules return for the same elements
Call_find_first ==
    /\ fOp = "none"
    /\ \E doc \in FindDocs, selector \in Selectors, first \in BOOLEAN :
          LET elements == BaseParser_find(doc, selector, ContainingNone) IN
          /\ fOp' = "find_first"
          /\ fArg' = [doc |-> doc, selector |-> selector, first |-> first]
          /\ fRet' = [src |-> get_first_or_list(elements, first),
                      pyppeteer |-> Py_get_first_or_list(elements, first)]
          /\ UNCHANGED <<mainVars, retryVars, runVars, iterVars, notFnVars>>

FnInit == MainIdle /\ RetryIdle /\ RunIdle /\ IterIdle /\ MoreIdle

FnNext ==
    \/ Call_next
    \/ Call_make_absolute
    \/ Call_links
    \/ Call_find
    \/ Call_find_first

SpecFn == FnInit /\ [][FnNext]_vars

(***************************************************************************)
(* SpecResp: the responses HTMLSession and AsyncHTMLSession deliver.  A    *)
(* session's request ends in requests' dispatch of the "response" hooks,   *)
(* of which each session has the one its constructor appended; the caller  *)
(* then reads response.html any number of times.                           *)
(***************************************************************************)
MaxResponses == 2

\* response.__dict__ of the requests.Response the adapter built
Encodings == {None, "", "ISO-8859-1"}
OrigResponses ==
    [url : {"https://site.test/a"}, content : {"doc0"}, encoding : Encodings]

\* self.hooks["response"] after __init__: partial(response_hook, self)
SessionHooks(sid) == <<sid>>

\* HTMLResponse.__init__(session)
HTMLResponse_init(session) == [_html |-> NoAttr, session |-> session]

\* for k, v in response.__dict__.items(): setattr(html_r, k, v)
SetAll(obj, dict) ==
    [k \in DOMAIN obj \cup DOMAIN dict |->
        IF k \in DOMAIN dict THEN dict[k] ELSE obj[k]]

\* HTMLResponse._from_response(session, response)
HTMLResponse_from_response(session, response) ==
    [class |-> "HTMLResponse",
     dict |-> SetAll(HTMLResponse_init(session), response)]

\* `not response.encoding`
NoEncoding(encoding) == encoding = None \/ encoding = ""

\* response_hook(session, response)
response_hook(session, response) ==
    HTMLResponse_from_response(session,
        IF NoEncoding(response.encoding)
        THEN [response EXCEPT !.encoding = DEFAULT_ENCODING]
        ELSE response)

\* (variant: the HTML object is built at every access)
AlwaysBuild(r) == TRUE
\* `self._html is None`
NeedsBuild(r) == r.dict._html = NoAttr

\* HTMLSession() / AsyncHTMLSession()
RespSession_init(async_) ==
    /\ Len(rsSessions) < MaxSessions
    /\ rsSessions' = Append(rsSessions, IF async_ THEN AsyncHTMLSession_init
                                        ELSE HTMLSession_init)
    /\ UNCHANGED <<resps, htmls, rsRet>>
    /\ UNCHANGED <<mainVars, retryVars, runVars, iterVars, notRespVars>>

\* session.get(url): the adapter's response goes through the session's
\* response hooks; orig and by keep what was asked, for the properties
Session_request(s, orig) ==
    /\ s \in DOMAIN rsSessions
    /\ Len(resps) < MaxResponses
    /\ resps' = Append(resps, [r |-> response_hook(SessionHooks(s)[1], orig),
                               orig |-> orig, by |-> s])
    /\ UNCHANGED <<rsSessions, htmls, rsRet>>
    /\ UNCHANGED <<mainVars, retryVars, runVars, iterVars, notRespVars>>

\* response.html
HTMLResponse_html(i) ==
    /\ i \in DOMAIN resps
    /\ LET r == resps[i].r IN
       IF NeedsBuild(r)
       THEN /\ htmls' = Append(htmls,
                           [obj |-> HTML_init(r.dict.session, r.dict.url,
                                              r.dict.content),
                            default_encoding |-> r.dict.encoding])
            /\ resps' = [resps EXCEPT ![i].r.dict._html = Len(htmls) + 1]
            /\ rsRet' = [resp |-> i, html |-> Len(htmls) + 1]
       ELSE /\ rsRet' = [resp |-> i, html |-> r.dict._html]
            /\ UNCHANGED <<resps, htmls>>
    /\ UNCHANGED rsSessions
    /\ UNCHANGED <<mainVars, retryVars, runVars, iterVars, notRespVars>>

RespInit == MainIdle /\ RetryIdle /\ RunIdle /\ IterIdle /\ MoreIdle
RespNext ==
    \/ \E async_ \in BOOLEAN : RespSession_init(async_)
    \/ \E s \in 1..MaxSessions, orig \in OrigResponses : Session_request(s, orig)
    \/ \E i \in 1..MaxResponses : HTMLResponse_html(i)
SpecResp == RespInit /\ [][RespNext]_vars

(***************************************************************************)
(* SpecPyp: the pyppeteer module (src/requests_html.py): one HTMLSession,  *)
(* one HTML object, a caller that is at times inside a running event loop. *)
(* pyLoop: the event loop of the calling thread is running.  pySess: the   *)
(* session has _browser, has loop.  pyLaunched counts pyppeteer.launch().  *)
(* pyDoc is the content of the HTML object.  pyR follows one render():     *)
(* the iterations of its loop done, the local `content`, the outcome of    *)
(* each attempt.  pyFailed: an access of browser has raised RuntimeError.  *)
(***************************************************************************)
MaxRetriesArg == 3
\* sessions the HTML object makes for itself in one run
MaxMade == 2

\* what one run of _async_render does: it returns the page's content, it
\* ends in its `except TimeoutError` branch and returns None, or it raises
\* something else
PyOutcomes == {"content", "timeout", "error"}

\* (variant: the assignment of _browser comes before the test of the loop)
BrowserKept(sess) == [sess EXCEPT !.loop = TRUE, !.hasBrowser = TRUE]
\* the session after `self.loop = asyncio.get_event_loop()` and the raise
LoopRunningRaise(sess) == [sess EXCEPT !.loop = TRUE]

\* HTMLSession.browser: [sess, launched, exc]
PyHTMLSession_browser(sess, launched, running) ==
    IF sess.hasBrowser
    THEN [sess |-> sess, launched |-> launched, exc |-> "none"]
    ELSE IF running
    THEN [sess |-> LoopRunningRaise(sess), launched |-> launched,
          exc |-> "RuntimeError"]
    ELSE [sess |-> [sess EXCEPT !.loop = TRUE, !.hasBrowser = TRUE],
          launched |-> launched + 1, exc |-> "none"]

\* (variant: one iteration more)
OneMore(retries) == retries + 1
\* range(retries)
PyRange(retries) == retries

\* the session an HTML object builds for itself when none is passed:
\* `session or async_ and AsyncHTMLSession() or HTMLSession()`
PyHTMLSession_init == [hasBrowser |-> FALSE, loop |-> FALSE]

\* the session with number n: 0 is the session of the caller, n > 0 the
\* n-th session an HTML() call has made
PySession(n) == IF n = 0 THEN pySess ELSE pyMade[n]
\* the browser the session n has launched
PyBrowserOf(n) == CHOOSE b \in DOMAIN pyBrowsers : pyBrowsers[b].session = n
\* the browsers after an access of the browser of session n
PyBrowsersAfter(n, acc) ==
    IF acc.launched > pyLaunched
    THEN Append(pyBrowsers, [session |-> n, open |-> TRUE])
    ELSE pyBrowsers

\* the attributes render() gives the HTML object: those of
\* `HTML(url=self.url, html=content.encode(...), default_encoding=...)`,
\* an object built without `session=`
PyRendered(made) == [session |-> Len(made) + 1]

\* the caller's code enters or leaves a running event loop
Py_loop(running) ==
    /\ pyR.pc # "loop"
    /\ pyLoop # running
    /\ pyLoop' = running
    /\ pyLast' = [op |-> "loop", exc |-> "none"]
    /\ UNCHANGED <<pySess, pyLaunched, pyDoc, pyR, pyFailed>>
    /\ UNCHANGED <<pyMade, pyHtml, pyBrowsers>>
    /\ UNCHANGED <<mainVars, retryVars, runVars, iterVars, notPypVars>>

\* session.browser, on the session of the caller
Py_browser ==
    /\ pyR.pc # "loop"
    /\ LET acc == PyHTMLSession_browser(pySess, pyLaunched, pyLoop) IN
       /\ pySess' = acc.sess
       /\ pyLaunched' = acc.launched
       /\ pyBrowsers' = PyBrowsersAfter(0, acc)
       /\ pyLast' = [op |-> "browser", exc |-> acc.exc]
       /\ pyFailed' = (pyFailed \/ acc.exc = "RuntimeError")
    /\ UNCHANGED <<pyLoop, pyDoc, pyR, pyMade, pyHtml>>
    /\ UNCHANGED <<mainVars, retryVars, runVars, iterVars, notPypVars>>

\* html.render(retries=retries), up to its loop: `self.browser =
\* self.session.browser`, `content = None`
Py_render(retries) ==
    /\ pyR.pc # "loop"
    /\ Len(pyMade) < MaxMade
    /\ LET n == pyHtml.session
           acc == PyHTMLSession_browser(PySession(n), pyLaunched, pyLoop) IN
       /\ IF n = 0
          THEN pySess' = acc.sess /\ UNCHANGED pyMade
          ELSE pyMade' = [pyMade EXCEPT ![n] = acc.sess] /\ UNCHANGED pySess
       /\ pyLaunched' = acc.launched
       /\ pyBrowsers' = PyBrowsersAfter(n, acc)
       /\ pyLast' = [op |-> "render", exc |-> acc.exc]
       /\ pyFailed' = (pyFailed \/ acc.exc = "RuntimeError")
       /\ pyR' = [PyNoRender EXCEPT
                     !.pc = IF acc.exc = "none" THEN "loop" ELSE "raised",
                     !.retries = retries, !.exc = acc.exc, !.before = pyDoc,
                     !.entered = (acc.exc = "none"), !.session = n,
                     !.browser = IF acc.exc # "none" THEN 0
                                 ELSE IF acc.launched > pyLaunched
                                 THEN Len(pyBrowsers) + 1
                                 ELSE PyBrowserOf(n)]
    /\ UNCHANGED <<pyLoop, pyDoc, pyHtml>>
    /\ UNCHANGED <<mainVars, retryVars, runVars, iterVars, notPypVars>>

\* one iteration of `for i in range(retries)` with `if not content`: the
\* attempt.  run_until_complete raises RuntimeError in a running loop; a
\* None returned cannot be unpacked, and the TypeError is passed over.
Py_render_attempt(o) ==
    /\ pyR.pc = "loop"
    /\ pyR.i < PyRange(pyR.retries)
    /\ pyR.content = None
    /\ IF pyLoop \/ o = "error"
       THEN /\ pyR' = [pyR EXCEPT !.pc = "raised",
                          !.exc = IF pyLoop THEN "RuntimeError" ELSE "Error",
                          !.attempts = Append(@, "error")]
            /\ pyLast' = [op |-> "render",
                          exc |-> IF pyLoop THEN "RuntimeError" ELSE "Error"]
       ELSE /\ pyR' = [pyR EXCEPT !.i = @ + 1,
                          !.content = IF o = "content" THEN "doc1" ELSE None,
                          !.attempts = Append(@, o)]
            /\ UNCHANGED pyLast
    /\ UNCHANGED <<pyLoop, pySess, pyLaunched, pyDoc, pyFailed>>
    /\ UNCHANGED <<pyMade, pyHtml, pyBrowsers>>
    /\ UNCHANGED <<mainVars, retryVars, runVars, iterVars, notPypVars>>

\* the end of the loop (`else: break`, or the range exhausted) and what
\* follows it: `if not content: raise MaxRetries`, else the HTML object
\* takes the attributes of a new one built from content: its html and the
\* session that new object has made for itself
Py_render_end ==
    /\ pyR.pc = "loop"
    /\ pyR.content # None \/ pyR.i >= PyRange(pyR.retries)
    /\ IF pyR.content = None
       THEN /\ pyR' = [pyR EXCEPT !.pc = "raised", !.exc = "MaxRetries"]
            /\ pyLast' = [op |-> "render", exc |-> "MaxRetries"]
            /\ UNCHANGED <<pyDoc, pyMade, pyHtml>>
       ELSE /\ pyR' = [pyR EXCEPT !.pc = "returned"]
            /\ pyDoc' = pyR.content
            /\ pyMade' = Append(pyMade, PyHTMLSession_init)
            /\ pyHtml' = PyRendered(pyMade)
            /\ UNCHANGED pyLast
    /\ UNCHANGED <<pyLoop, pySess, pyLaunched, pyFailed, pyBrowsers>>
    /\ UNCHANGED <<mainVars, retryVars, runVars, iterVars, notPypVars>>

\* html.session.close(): `if hasattr(self, "_browser"):
\* self.loop.run_until_complete(self._browser.close())`, which raises
\* RuntimeError inside a running loop
Py_close ==
    /\ pyR.pc # "loop"
    /\ LET n == pyHtml.session
           has == PySession(n).hasBrowser IN
       /\ pyBrowsers' = IF has /\ ~pyLoop
                        THEN [pyBrowsers EXCEPT ![PyBrowserOf(n)].open = FALSE]
                        ELSE pyBrowsers
       /\ pyLast' = [op |-> "close",
                     exc |-> IF has /\ pyLoop THEN "RuntimeError" ELSE "none"]
    /\ UNCHANGED <<pyLoop, pySess, pyLaunched, pyDoc, pyR, pyFailed>>
    /\ UNCHANGED <<pyMade, pyHtml>>
    /\ UNCHANGED <<mainVars, retryVars, runVars, iterVars, notPypVars>>

PypInit == MainIdle /\ RetryIdle /\ RunIdle /\ IterIdle /\ MoreIdle
PypNext ==
    \/ \E running \in BOOLEAN : Py_loop(running)
    \/ Py_browser
    \/ \E retries \in 0..MaxRetriesArg : Py_render(retries)
    \/ \E o \in PyOutcomes : Py_render_attempt(o)
    \/ Py_render_end
    \/ Py_close
SpecPyp == PypInit /\ [][PypNext]_vars

(***************************************************************************)
(* SpecCo: coroutines of one event loop that await the browser property    *)
(* of one AsyncHTMLSession (src/src/requests_html.py, 873-878), directly   *)
(* or through arender (line 737).  tasks[i] is the i-th coroutine: where   *)
(* it stands in the property's body and the browser it was given.  The     *)
(* loop runs one coroutine at a time and changes coroutine at an await.    *)
(***************************************************************************)
\* a coroutine that has not run yet
NewAwaiter == [pc |-> "start", b |-> NoAttr]

\* asyncio.ensure_future(...) of a coroutine that awaits session.browser
Co_spawn ==
    /\ Len(tasks) < MaxCoros
    /\ tasks' = Append(tasks, NewAwaiter)
    /\ UNCHANGED <<runPc, runResult, runExc>>
    /\ UNCHANGED <<mainVars, retryVars, iterVars, moreVars>>

\* `if not hasattr(self, "_browser")`, up to the first await, or
\* `return self._browser`
Co_check(i) ==
    /\ i \in DOMAIN tasks /\ tasks[i].pc = "start"
    /\ tasks' = [tasks EXCEPT ![i] =
                    IF HasBrowserAttr(sessions[1])
                    THEN [pc |-> "done", b |-> sessions[1].browser]
                    ELSE [pc |-> "starting", b |-> NoAttr]]
    /\ UNCHANGED <<runPc, runResult, runExc>>
    /\ UNCHANGED <<mainVars, retryVars, iterVars, moreVars>>

\* `self._playwright = await async_playwright().start()` completes, up to
\* the await of launch()
Co_started(i) ==
    /\ i \in DOMAIN tasks /\ tasks[i].pc = "starting"
    /\ sessions' = [sessions EXCEPT ![1].playwright = "running"]
    /\ tasks' = [tasks EXCEPT ![i].pc = "launching"]
    /\ UNCHANGED <<browsers, page, h, last, runPc, runResult, runExc>>
    /\ UNCHANGED <<retryVars, iterVars, moreVars>>

\* `self._browser = await self._playwright.chromium.launch()` completes;
\* `return self._browser`
Co_launched(i) ==
    /\ i \in DOMAIN tasks /\ tasks[i].pc = "launching"
    /\ browsers' = Launched(browsers, 1)
    /\ sessions' = [sessions EXCEPT ![1].hasBrowser = TRUE,
                                    ![1].browser = Len(browsers) + 1]
    /\ tasks' = [tasks EXCEPT ![i] = [pc |-> "done", b |-> Len(browsers) + 1]]
    /\ UNCHANGED <<page, h, last, runPc, runResult, runExc>>
    /\ UNCHANGED <<retryVars, iterVars, moreVars>>

CoInit ==
    /\ sessions = <<AsyncHTMLSession_init>> /\ browsers = <<>>
    /\ page = NoPageObj
    /\ h = HTML_init(1, DEFAULT_URL, NoBytes)
    /\ last = Idle
    /\ RetryIdle /\ RunIdle /\ IterIdle /\ MoreIdle
CoNext ==
    \/ Co_spawn
    \/ \E i \in 1..MaxCoros : Co_check(i)
    \/ \E i \in 1..MaxCoros : Co_started(i)
    \/ \E i \in 1..MaxCoros : Co_launched(i)
SpecCo == CoInit /\ [][CoNext]_vars

(***************************************************************************)
(* SpecAIter: `async for page in html` with an AsyncHTMLSession            *)
(* (HTML.__aiter__, HTML.__anext__, src/src/requests_html.py, 545-554).    *)
(* itCur is the iterator, which __aiter__ makes the HTML object itself;    *)
(* itYielded lists what __anext__ returned to the loop (NoUrl for None),   *)
(* itFirst is the URL of the page the loop was given last.                 *)
(***************************************************************************)
\* aiter(html): `return self`
AIter_start(doc) ==
    /\ itPc = "idle"
    /\ itFirst' = StartUrl
    /\ itCur' = [url |-> StartUrl, doc |-> doc]
    /\ itYielded' = <<>>
    /\ itPc' = "iterating"
    /\ itExc' = "none"
    /\ UNCHANGED <<mainVars, retryVars, runVars, moreVars>>

\* __anext__ where next(fetch=False) raises, or returns None: `break`, and
\* the coroutine returns None, which the loop takes as its next page
AIter_anext_none ==
    /\ itPc = "iterating"
    /\ Len(itYielded) < MaxPages
    /\ LET n == HTML_next(itCur, DEFAULT_NEXT_SYMBOL) IN
       /\ n.exc # "none" \/ n.url = NoUrl
       /\ IF n.exc # "none"
          THEN /\ itPc' = "raised" /\ itExc' = n.exc
               /\ UNCHANGED itYielded
          ELSE /\ itYielded' = Append(itYielded, NoUrl)
               /\ UNCHANGED <<itPc, itExc>>
    /\ UNCHANGED <<itFirst, itCur, mainVars, retryVars, runVars, moreVars>>

\* __anext__ where next(fetch=False) returns a URL: `response = await
\* self.session.get(url)`, `return response.html`; self stays as it is
AIter_anext_fetch(resp) ==
    /\ itPc = "iterating"
    /\ Len(itYielded) < MaxPages
    /\ LET n == HTML_next(itCur, DEFAULT_NEXT_SYMBOL) IN
       /\ n.exc = "none" /\ n.url # NoUrl
       /\ IF resp.exc # "none"
          THEN /\ itPc' = "raised" /\ itExc' = resp.exc
               /\ UNCHANGED <<itFirst, itYielded>>
          ELSE /\ itYielded' = Append(itYielded, n.url)
               /\ itFirst' = n.url
               /\ UNCHANGED <<itPc, itExc>>
    /\ UNCHANGED <<itCur, mainVars, retryVars, runVars, moreVars>>

AIterInit == MainIdle /\ RetryIdle /\ RunIdle /\ IterIdle /\ MoreIdle
AIterNext ==
    \/ \E doc \in IterDocs : AIter_start(doc)
    \/ AIter_anext_none
    \/ \E resp \in Fetches : AIter_anext_fetch(resp)
SpecAIter == AIterInit /\ [][AIterNext]_vars

(***************************************************************************)
(* SpecSym: the next symbols of the pyppeteer module (src/requests_html.py)*)
(* as Python objects.  symLists are the list objects (index = identity);   *)
(* symLists[DefaultRef] is the module-level DEFAULT_NEXT_SYMBOL, which is  *)
(* also the default value of the parameter next_symbol of next(), bound    *)
(* once when the method is defined.  symObjs are the HTML objects, each    *)
(* with the reference its attribute next_symbol holds.  symAdded are the   *)
(* objects add_next_symbol was called on.                                  *)
(***************************************************************************)
MaxObjs == 2
MaxAdded == 2
NewSymbols == {"suivant", "weiter"}
DefaultRef == 1

\* `self.next_symbol = DEFAULT_NEXT_SYMBOL`: the reference, not a copy
HTML_next_symbol(lists) == [ref |-> DefaultRef, lists |-> lists]

\* HTML(...)
Sym_HTML ==
    /\ Len(symObjs) < MaxObjs
    /\ LET ns == HTML_next_symbol(symLists) IN
       /\ symObjs' = Append(symObjs, [next_symbol |-> ns.ref])
       /\ symLists' = ns.lists
       /\ symLast' = [op |-> "HTML", obj |-> Len(symObjs) + 1,
                      symbols |-> ns.lists[ns.ref]]
    /\ UNCHANGED symAdded
    /\ UNCHANGED <<mainVars, retryVars, runVars, iterVars, notSymVars>>

\* symObjs[o].add_next_symbol(sym): `self.next_symbol.append(next_symbol)`
Sym_add_next_symbol ==
    \E o \in DOMAIN symObjs, sym \in NewSymbols :
        LET r == symObjs[o].next_symbol IN
        /\ Len(symLists[r]) < Len(DEFAULT_NEXT_SYMBOL) + MaxAdded
        /\ symLists' = [symLists EXCEPT ![r] = Append(@, sym)]
        /\ symAdded' = symAdded \cup {o}
        /\ symLast' = [op |-> "add_next_symbol", obj |-> o,
                       symbols |-> Append(symLists[r], sym)]
        /\ UNCHANGED symObjs
        /\ UNCHANGED <<mainVars, retryVars, runVars, iterVars, notSymVars>>

\* symObjs[o].next(): the symbols it searches the anchors for are the
\* default value of its parameter next_symbol
Sym_next ==
    \E o \in DOMAIN symObjs :
        /\ symLast' = [op |-> "next", obj |-> o,
                       symbols |-> symLists[DefaultRef]]
        /\ UNCHANGED <<symLists, symObjs, symAdded>>
        /\ UNCHANGED <<mainVars, retryVars, runVars, iterVars, notSymVars>>

\* next(symObjs[o]), the method __next__: `self.next(fetch=True,
\* next_symbol=self.next_symbol)` searches for the symbols of the object
Sym_dunder_next ==
    \E o \in DOMAIN symObjs :
        /\ symLast' = [op |-> "__next__", obj |-> o,
                       symbols |-> symLists[symObjs[o].next_symbol]]
        /\ UNCHANGED <<symLists, symObjs, symAdded>>
        /\ UNCHANGED <<mainVars, retryVars, runVars, iterVars, notSymVars>>

SymInit == MainIdle /\ RetryIdle /\ RunIdle /\ IterIdle /\ MoreIdle
SymNext ==
    \/ Sym_HTML
    \/ Sym_add_next_symbol
    \/ Sym_next
    \/ Sym_dunder_next
SpecSym == SymInit /\ [][SymNext]_vars

(***************************************************************************)
(* SpecTree: the parse tree of one HTML object (src/src/requests_html.py): *)
(* the attributes _html, _encoding, _lxml and _pq of BaseParser, their      *)
(* properties and setters, and the methods that read the tree.  tObj is    *)
(* the object, tLast the last call and the tree it answered from.  tBuilds *)
(* counts the parser runs since the object was built or rendered, tFirst   *)
(* is the tree of the first of them, tAssigned tells that html, raw_html   *)
(* or encoding was assigned since.                                         *)
(***************************************************************************)
TreeTexts == {"t0", "t1"}
TreeEncodings == {"utf-8", "latin-1"}
TreeBytes == {str_encode(t, e) : t \in TreeTexts \cup {""}, e \in TreeEncodings}

\* truth value of bytes and str: empty is false
NonEmpty(b) == b.text # ""

\* html_to_unicode(default_encoding, html)[0]: the encoding the document
\* is written in
html_to_unicode(default_encoding, html) == html.enc

\* BaseParser.encoding: the object after the call (the getter caches what
\* it detects in _encoding) and the value returned
BaseParser_encoding(o) ==
    IF o._encoding # None THEN [o |-> o, ret |-> o._encoding]
    ELSE IF NonEmpty(o._html)
    THEN LET enc == html_to_unicode(o.default_encoding, o._html) IN
         [o |-> [o EXCEPT !._encoding = enc], ret |-> enc]
    ELSE [o |-> o, ret |-> o.default_encoding]

\* BaseParser.html: the decoded _html, or the serialized element
BaseParser_html(o) ==
    IF NonEmpty(o._html)
    THEN LET e == BaseParser_encoding(o) IN
         [o |-> e.o, ret |-> bytes_decode(o._html, e.ret)]
    ELSE [o |-> o, ret |-> [text |-> o.element, garbled |-> FALSE]]

\* soup_parse(self.html, features="html.parser")
soup_parse(html) == [built |-> TRUE, src |-> html]

\* BaseParser.lxml: `if self._lxml is None: self._lxml = soup_parse(...)`
BaseParser_lxml(o) ==
    IF o._lxml.built THEN [o |-> o, ret |-> o._lxml, parsed |-> 0]
    ELSE LET hh == BaseParser_html(o)
             t == soup_parse(hh.ret) IN
         [o |-> [hh.o EXCEPT !._lxml = t], ret |-> t, parsed |-> 1]

\* BaseParser.pq: `if self._pq is None: self._pq = PyQuery(self.lxml)`
BaseParser_pq_lxml(o) ==
    IF o._pq.built THEN [o |-> o, ret |-> o._pq, parsed |-> 0]
    ELSE LET l == BaseParser_lxml(o) IN
         [o |-> [l.o EXCEPT !._pq = l.ret], ret |-> l.ret, parsed |-> l.parsed]

\* (variant: the setter drops the tree)
RawHtmlDropsTree(o, html) ==
    [o EXCEPT !._html = html, !._lxml = NoLxml, !._pq = NoLxml]
\* the setters: `self._html = html`, `self._html = html.encode(
\* self.encoding)`, `self._encoding = enc`
set_raw_html(o, html) == [o EXCEPT !._html = html]
set_html(o, text) ==
    LET e == BaseParser_encoding(o) IN
    [e.o EXCEPT !._html = str_encode(text, e.ret)]
set_encoding(o, enc) == [o EXCEPT !._encoding = enc]

\* a call that reads the tree, seen from the object
TreeRead(op, r) ==
    /\ tObj' = r.o
    /\ tLast' = [op |-> op, tree |-> r.ret]
    /\ tBuilds' = tBuilds + r.parsed
    /\ tFirst' = IF tFirst.built THEN tFirst ELSE r.ret
    /\ UNCHANGED tAssigned
    /\ UNCHANGED <<mainVars, retryVars, runVars, iterVars, notTreeVars>>

\* find(selector): `encoding = _encoding or self.encoding`, `self.pq(...)`
Tree_find == TreeRead("find", BaseParser_pq_lxml(BaseParser_encoding(tObj).o))
\* xpath(selector): `self.lxml.xpath(selector)`
Tree_xpath == TreeRead("xpath", BaseParser_lxml(tObj))
\* links: `for link in self.find("a")`
Tree_links == TreeRead("links", BaseParser_pq_lxml(BaseParser_encoding(tObj).o))

\* an assignment to raw_html, html or encoding
TreeAssign(op, o) ==
    /\ tObj' = o
    /\ tLast' = [op |-> op, tree |-> NoLxml]
    /\ tAssigned' = (tAssigned \/ tFirst.built)
    /\ UNCHANGED <<tBuilds, tFirst>>
    /\ UNCHANGED <<mainVars, retryVars, runVars, iterVars, notTreeVars>>

Tree_set_raw_html ==
    \E html \in TreeBytes : TreeAssign("raw_html", set_raw_html(tObj, html))
Tree_set_html ==
    \E text \in TreeTexts \cup {""} : TreeAssign("html", set_html(tObj, text))
Tree_set_encoding ==
    \E enc \in TreeEncodings : TreeAssign("encoding", set_encoding(tObj, enc))

\* render(): every attribute of `HTML(url=self.url, html=content.encode(
\* DEFAULT_ENCODING), default_encoding=DEFAULT_ENCODING)` is set on self
Tree_render ==
    \E content \in TreeTexts :
        /\ tObj' = Tree_init(str_encode(content, DEFAULT_ENCODING))
        /\ tLast' = [op |-> "render", tree |-> NoLxml]
        /\ tBuilds' = 0
        /\ tFirst' = NoLxml
        /\ tAssigned' = FALSE
        /\ UNCHANGED <<mainVars, retryVars, runVars, iterVars, notTreeVars>>

TreeInit == MainIdle /\ RetryIdle /\ RunIdle /\ IterIdle /\ MoreIdle
TreeNext ==
    \/ Tree_find
    \/ Tree_xpath
    \/ Tree_links
    \/ Tree_set_raw_html
    \/ Tree_set_html
    \/ Tree_set_encoding
    \/ Tree_render
SpecTree == TreeInit /\ [][TreeNext]_vars

(***************************************************************************)
(* Properties.                                                             *)
(***************************************************************************)
\* the browsers launched for session s
BrowsersOf(s) == {b \in DOMAIN browsers : browsers[b].session = s}
\* render() has just returned normally
RenderReturned == last.op = "render" /\ rPc = "returned" /\ last.exc = "none"
\* arender() has just returned normally
ARenderReturned == last.op = "arender" /\ rPc = "returned" /\ last.exc = "none"

\* C1 (SpecRetry): with tries >= 1 and a wrapped function that raises an
\* exception on every call, the function is called exactly `tries` times,
\* never more while the wrapper runs, and the wrapper then raises
\* RuntimeError; none of the function's exceptions leaves the wrapper.
C1_RetryExhausts ==
    (rTries >= 1 /\ rAllRaised) =>
        /\ rPc = "running" => rCalls < rTries
        /\ rPc \in {"returned", "raised"} =>
              /\ rCalls = rTries
              /\ rPc = "raised"
              /\ rExc = "RuntimeError"
C1_Witness ==
    /\ rPc = "raised" /\ rExc = "RuntimeError" /\ rAllRaised
    /\ rTries = 4 /\ rCalls = 4

\* C2 (Spec): an HTMLSession has at most one browser launched for it, over
\* any sequence of browser accesses and render() calls, and every access
\* that returns a browser returns that one.
C2_OneBrowser ==
    /\ \A s \in DOMAIN sessions :
          sessions[s].kind = "sync" => Cardinality(BrowsersOf(s)) <= 1
    /\ (/\ last.op \in {"browser", "render"}
        /\ sessions[last.session].kind = "sync"
        /\ last.b # NoAttr) => BrowsersOf(last.session) = {last.b}
\* a browser access after a render() of the same session
C2_Witness ==
    /\ last.op = "browser" /\ last.session = h.session
    /\ sessions[h.session].kind = "sync"
    /\ h.raw.text \in Contents
    /\ last.b # NoAttr /\ BrowsersOf(h.session) = {last.b}

\* C3 (Spec): HTMLSession.close() of a session that launched a browser
\* closes the browser, then stops the driver, then closes the HTTP session;
\* of a session that never launched one it only closes the HTTP session:
\* there is no browser of that session, launched or closed.
C3_CloseOrder ==
    (last.op = "close" /\ sessions[last.session].kind = "sync") =>
        IF sessions[last.session].hasBrowser
        THEN /\ last.trace = <<"browser.close", "playwright.stop", "session.close">>
             /\ last.b = sessions[last.session].browser
             /\ ~browsers[last.b].open
             /\ sessions[last.session].playwright = "stopped"
        ELSE /\ last.trace = <<"session.close">>
             /\ last.b = NoAttr
             /\ BrowsersOf(last.session) = {}
C3_Witness ==
    /\ last.op = "close" /\ sessions[last.session].kind = "sync"
    /\ sessions[last.session].hasBrowser
    /\ ~browsers[last.b].open
    /\ last.trace[3] = "session.close"

\* C4 (Spec): when render() returns, the content of the HTML object is what
\* the page returned, no parse tree is cached, so that find() and links are
\* answered from the rendered content, and the value returned is the
\* script's value, None when no script was given.
C4_RenderedContent ==
    RenderReturned =>
        /\ last.content \in Contents
        /\ h.raw = Encode(last.content, DEFAULT_ENCODING)
        /\ ~h.pq.built
        /\ BaseParser_pq(h).of = Encode(last.content, DEFAULT_ENCODING)
        /\ last.ret = IF last.script = None THEN None ELSE last.evaluated
        /\ last.script # None => last.ret \in Values
C4_Witness ==
    /\ RenderReturned /\ last.script # None /\ last.ret \in Values
    /\ h.raw.text \in Contents /\ ~h.pq.built

\* C5 (Spec): after render(keep_page=True) has returned, html.page is a
\* page that is still open.
C5_KeptPageOpen ==
    (RenderReturned /\ last.keep_page) => (h.page # None /\ page.open)

\* C6 (Spec): after render() with keep_page False has returned, html.page
\* is None and no page that the render opened is still open.
C6_NoPageLeft ==
    (RenderReturned /\ ~last.keep_page) => (h.page = None /\ last.pgLeft = 0)

\* C7 (Spec): render() and arender() leave html.session the session it
\* was, whose browser is the one that rendered; closing html.session right
\* after closes that browser.
C7_SessionKept ==
    [][/\ (RenderReturned' \/ ARenderReturned') =>
            /\ h'.session = last'.session
            /\ last'.b # NoAttr
            /\ sessions'[h'.session].browser = last'.b
       /\ (/\ RenderReturned \/ ARenderReturned
           /\ last'.op = "close" /\ last'.session = h.session) =>
            ~browsers'[last.b].open]_vars
\* html.session closed after an arender()
C7_Witness ==
    /\ last.op = "close" /\ last.session = h.session
    /\ sessions[h.session].kind = "async"
    /\ h.raw.text \in Contents
    /\ last.b # NoAttr /\ ~browsers[last.b].open

\* C8 (SpecRun): the list run() returns holds the results in the order the
\* coroutines were passed in: its k-th entry is the result of the k-th
\* coroutine, whatever order the coroutines completed in.
C8_ResultsInOrder ==
    runPc = "returned" =>
        \A k \in DOMAIN runResult :
            runResult[k].task = k /\ runResult[k].value = tasks[k].value

\* C9 (SpecRun): run() is left, by return or by the exception of a task,
\* only when every coroutine passed has completed, and the list returned
\* holds exactly one result per coroutine: as many entries as coroutines,
\* each coroutine's value once.
C9_AllCompleted ==
    /\ (runPc \in {"returned", "raised"} /\ Len(tasks) > 0) =>
            \A i \in DOMAIN tasks : tasks[i].done
    /\ runPc = "returned" =>
          /\ Len(runResult) = Len(tasks)
          /\ \A i \in DOMAIN tasks :
                Cardinality({k \in DOMAIN runResult : runResult[k].task = i}) = 1
          /\ \A k \in DOMAIN runResult :
                runResult[k].value = tasks[runResult[k].task].value
\* three coroutines with different results, returned in another order
C9_Witness ==
    /\ runPc = "returned" /\ Len(tasks) = 3 /\ Len(runResult) = 3
    /\ tasks[1].value # tasks[2].value
    /\ runResult[1].task = 3

\* a document without a next-page link: no <a> whose text contains a next
\* symbol carries a non-empty href
NoNextLink(doc) ==
    \A i \in DOMAIN doc :
        ~(Containing(doc[i], DEFAULT_NEXT_SYMBOL) /\ Truthy(doc[i].href))

\* C10 (SpecIter): iterating an HTML object yields the object itself first
\* and then the pages of the chain of next links, in order; at a page
\* without a next-page link the iteration stops, normally and with nothing
\* more yielded after that page: an object without a next-page link
\* yields one item.
C10_IterStops ==
    /\ itPc # "idle" => (itYielded # <<>> /\ itYielded[1] = itFirst)
    /\ (itPc \in {"stopped", "raised"} /\ NoNextLink(itCur.doc)) =>
          /\ itPc = "stopped" /\ itExc = "none"
          /\ itYielded[Len(itYielded)] = itCur.url

\* the elements of doc whose text contains one of the symbols
MatchingAnchors(doc, symbols) ==
    {i \in DOMAIN doc : Containing(doc[i], symbols)}
\* those of them that have an href and a rel "next", a class name with
\* "next", or "page" in the href
MarkedAnchors(doc, symbols) ==
    {i \in MatchingAnchors(doc, symbols) :
        Truthy(doc[i].href) /\ (doc[i].rel \/ doc[i].cls \/ HasPage(doc[i].href))}
Max(S) == CHOOSE i \in S : \A j \in S : j <= i
Min(S) == CHOOSE i \in S : \A j \in S : i <= j

CutAfterLastSlash(path) ==
    IF path = <<>> THEN <<"">> ELSE [path EXCEPT ![Len(path)] = ""]
StatedBase(url, bases) ==
    IF bases # <<>> /\ bases[1] # NoHref /\ Strip(bases[1]) # ""
    THEN LET b == urlparse(Strip(bases[1])) IN
         [scheme |-> b.scheme, netloc |-> b.netloc, path |-> b.path]
    ELSE [scheme |-> url.scheme, netloc |-> url.netloc,
          path |-> CutAfterLastSlash(url.path)]
C12_MakeAbsolute ==
    fOp = "_make_absolute" =>
        LET l == urlparse(fArg.link)
            b == StatedBase(fArg.url, fArg.bases) IN
        /\ (l.scheme # "" /\ l.netloc # "") =>
               fRet = [scheme |-> l.scheme, netloc |-> l.netloc, path |-> l.path]
        /\ (l.scheme = "" /\ l.netloc # "") =>
               fRet = [scheme |-> b.scheme, netloc |-> l.netloc, path |-> l.path]
        /\ l.netloc = "" => fRet = urljoin(b, l)
C12_Witness ==
    /\ fOp = "_make_absolute"
    /\ fArg.link = "//cdn.test/y"
    /\ fArg.url.scheme = "http"
    /\ fArg.bases = <<" ftp://cdn.test/lib/ ">>
    /\ fRet = [scheme |-> "ftp", netloc |-> "cdn.test", path |-> <<"y">>]

\* C13: links is the set of the stripped hrefs of the anchors that are
\* non-empty and start with neither "javascript:" nor "mailto:"; an href
\* starting with "#" is left out while skip_anchors is true and is in the
\* set when it is false; anchors without href contribute nothing.
StrippedHrefs(doc) == {str_strip(doc[i]) : i \in {j \in DOMAIN doc : doc[j] # NoLinkHref}}
C13_Links ==
    fOp = "links" =>
        /\ fRet \subseteq StrippedHrefs(fArg.doc)
        /\ \A t \in StrippedHrefs(fArg.doc) :
              t \in fRet <=>
                  /\ Len(t) > 0
                  /\ t[1] \notin {"javascript:", "mailto:"}
                  /\ (t[1] = "#" => ~fArg.skip_anchors)
C13_Witness ==
    /\ fOp = "links"
    /\ ~fArg.skip_anchors
    /\ Len(fArg.doc) = 2
    /\ fArg.doc[1] = NoLinkHref
    /\ fArg.doc[2] = <<Blank, "#", "x", Blank>>
    /\ fRet = {<<"#", "x">>}

\* the strings of a containing argument, a single string being the list
\* of that string
StringsOf(arg) == IF arg.kind = "str" THEN {arg.val} ELSE {arg.val[k] : k \in DOMAIN arg.val}
SameLetter(x, y) == x = y \/ {x, y} \in {{"a", "A"}, {"b", "B"}}
ContainsCI(t, c) ==
    \E i \in 0..(Len(t) - Len(c)) : \A k \in 1..Len(c) : SameLetter(t[i + k], c[k])
\* the positions of the elements that match the selector and whose text
\* contains a string of the argument
FoundAt(doc, selector, arg) ==
    {i \in DOMAIN doc :
        /\ selector = "*" \/ doc[i].tag = selector
        /\ \E c \in StringsOf(arg) : ContainsCI(doc[i].text, c)}
\* ret lists the elements of doc at the positions idx, last position first
InReverseOrder(ret, doc, idx) ==
    /\ Len(ret) = Cardinality(idx)
    /\ \E f \in [1..Len(ret) -> idx] :
          /\ \A j \in 1..Len(ret) : ret[j] = doc[f[j]]
          /\ \A j, k \in 1..Len(ret) : j < k => f[j] > f[k]

\* C15 as stated (SpecFn): find(selector, containing=S) returns the
\* elements matching the selector whose text contains, whatever the case of
\* the letters, a string of S, in reverse document order, for every string
\* or list of strings S.
C15_FindAsStated ==
    (fOp = "find" /\ fArg.containing.kind # "none") =>
        InReverseOrder(fRet, fArg.doc,
                       FoundAt(fArg.doc, fArg.selector, fArg.containing))

\* C15 amended (SpecFn): as stated for a string or a non-empty list S; with
\* an empty list nothing is filtered and the elements matching the selector
\* are returned in document order.
C15_Find ==
    (fOp = "find" /\ fArg.containing.kind # "none") =>
        IF fArg.containing.kind = "list" /\ fArg.containing.val = <<>>
        THEN fRet = SelectSeq(fArg.doc,
                        LAMBDA e : fArg.selector = "*" \/ e.tag = fArg.selector)
        ELSE InReverseOrder(fRet, fArg.doc,
                            FoundAt(fArg.doc, fArg.selector, fArg.containing))
C15_Witness ==
    /\ fOp = "find"
    /\ fArg.containing = [kind |-> "str", val |-> <<"A">>]
    /\ fArg.selector = "a"
    /\ fArg.doc = <<[tag |-> "a", text |-> <<"a">>], [tag |-> "a", text |-> <<"b", "A">>]>>
    /\ fRet = <<[tag |-> "a", text |-> <<"b", "A">>], [tag |-> "a", text |-> <<"a">>]>>

\* C14: every response a session delivers is an HTMLResponse with all the
\* attributes of the original response, bound to the session that made the
\* request, with a non-empty encoding (utf-8 when the original had none);
\* its .html is built at the first access, with that session, and every
\* later access returns the same HTML object.
C14_Delivered ==
    \A i \in DOMAIN resps :
        LET d == resps[i] IN
        /\ d.r.class = "HTMLResponse"
        /\ \A k \in DOMAIN d.orig \ {"encoding"} : d.r.dict[k] = d.orig[k]
        /\ d.r.dict.encoding =
               (IF d.orig.encoding \in {None, ""} THEN "utf-8" ELSE d.orig.encoding)
        /\ d.r.dict.session = d.by
        /\ d.r.dict._html # NoAttr =>
               /\ d.r.dict._html \in DOMAIN htmls
               /\ htmls[d.r.dict._html].obj.session = d.by
C14_HtmlOnce ==
    \A i \in DOMAIN resps :
        /\ resps[i].r.dict._html # NoAttr =>
               resps'[i].r.dict._html = resps[i].r.dict._html
        /\ (rsRet' # rsRet /\ rsRet'.resp = i) =>
               /\ rsRet'.html = resps'[i].r.dict._html
               /\ rsRet'.html # NoAttr
               /\ resps[i].r.dict._html = NoAttr => htmls' # htmls
C14_Response == []C14_Delivered /\ [][C14_HtmlOnce]_vars
C14_Witness ==
    /\ Len(resps) = 2
    /\ resps[1].by = 2 /\ resps[2].by = 1
    /\ rsSessions[2].kind = "async"
    /\ resps[1].orig.encoding = None
    /\ resps[1].r.dict._html = 2 /\ resps[2].r.dict._html = 1
    /\ rsRet = [resp |-> 2, html |-> 1]

\* C16: render() on an HTML object whose url is DEFAULT_URL never makes
\* the page go to that URL, whatever render_html was passed: every goto of
\* the call has the data: URL of the HTML held in memory as its target.
C16_NoDefaultUrlVisit ==
    (last.op = "render" /\ h.url = DEFAULT_URL) =>
        /\ DEFAULT_URL \notin last.nav
        /\ last.nav \subseteq {DataUrl}
C16_Witness ==
    /\ last.op = "render"
    /\ rPc = "returned"
    /\ last.exc = "none"
    /\ h.url = DEFAULT_URL
    /\ last.nav = {DataUrl}

\* C17: render(retries=n) of the pyppeteer module, when every attempt
\* yields content or times out, makes at most n attempts and none after the
\* first that yields content; it raises MaxRetries exactly when no attempt
\* yields content (n = 0 included), and then the content of the document
\* is what it was.
C17_Retries ==
    LET a == pyR.attempts IN
    (pyR.entered /\ \A k \in DOMAIN a : a[k] \in {"content", "timeout"}) =>
       (
        /\ Len(a) <= pyR.retries
        /\ \A k \in DOMAIN a : a[k] = "content" => k = Len(a)
        /\ pyR.pc = "raised" =>
              /\ pyR.exc = "MaxRetries"
              /\ \A k \in DOMAIN a : a[k] # "content"
              /\ pyDoc = pyR.before
        /\ pyR.pc = "returned" => \E k \in DOMAIN a : a[k] = "content")
C17_Witness ==
    /\ pyR.entered
    /\ pyR.pc = "raised"
    /\ pyR.exc = "MaxRetries"
    /\ pyR.retries = 2
    /\ pyR.attempts = <<"timeout", "timeout">>
    /\ pyDoc = "doc1"

\* C18: an access of HTMLSession.browser (pyppeteer module) on a session
\* without browser, while the event loop is running, raises RuntimeError,
\* launches nothing and leaves the session without browser; such an access
\* outside a running loop launches one browser.
C18_BrowserAccess ==
    (pyLast'.op = "browser" /\ ~pySess.hasBrowser) =>
        IF pyLoop
        THEN /\ pyLast'.exc = "RuntimeError"
             /\ pyLaunched' = pyLaunched
             /\ ~pySess'.hasBrowser
        ELSE /\ pyLast'.exc = "none"
             /\ pyLaunched' = pyLaunched + 1
             /\ pySess'.hasBrowser
C18_LoopRunning == [][C18_BrowserAccess]_vars
C18_Witness ==
    /\ pyFailed
    /\ pyR = PyNoRender
    /\ pyLast = [op |-> "browser", exc |-> "none"]
    /\ pySess.hasBrowser
    /\ pyLaunched = 1

\* C19: arender() retries as render() does: an exception raised while an
\* attempt of _async_render runs leads to a new attempt, up to RETRY_TRIES
\* attempts, and then to RuntimeError.
C19_ARenderRetries ==
    (last.op = "arender" /\ rPc = "raised") =>
        /\ last.exc = "RuntimeError"
        /\ rCalls = RETRY_TRIES

\* the wrapper has returned what the timeout branch of _render returns:
\* no content
EndedInTimeoutBranch ==
    last.op = "render" /\ rPc = "returned" /\ last.content = None
\* C20: when an attempt of render() ends in the timeout branch of _render,
\* render() fails with the RuntimeError of the retry wrapper, and no new
\* document is built from the missing content.
C20_TimeoutIsRuntimeError ==
    EndedInTimeoutBranch =>
        /\ last.exc = "RuntimeError"
        /\ h.raw.text # None

\* C21 (SpecRetry): the wrapper returns the value of the first call that
\* does not raise and calls the function no more: the calls made are the
\* caught failures and that one call, at most `tries`; a function that
\* succeeds at once is called once, and nothing is slept.
C21_FirstSuccess ==
    rPc = "returned" =>
        /\ rExc = "none"
        /\ fRet.wrapper = fRet.func
        /\ rCalls = rI + 1
        /\ rCalls <= rTries
        /\ rI = 0 => (rCalls = 1 /\ rSlept = 0)
C21_Witness ==
    /\ rPc = "returned"
    /\ rTries = 3 /\ rCalls = 2 /\ rI = 1
    /\ rBase = 2 /\ rSlept = 2
    /\ fRet = [func |-> "v2", wrapper |-> "v2"]

\* C22 (Spec): when render() has finished, by returning or by raising,
\* every browser context its attempts opened has been closed.
C22_ContextsClosed ==
    (last.op = "render" /\ rPc \in {"returned", "raised"}) => last.ctxLeft = 0

\* C23 (SpecCo): at most one browser is launched for an AsyncHTMLSession,
\* also when several coroutines await session.browser before the first
\* launch has completed.
C23_OneBrowserAsync == Cardinality(BrowsersOf(1)) <= 1

\* C24 (SpecAIter): an `async for` over an HTML object goes from each page
\* to its next page and ends at a page without next-page link: the
\* iterator stands at the page the loop was given last, and the loop is
\* never given a page that is None.
C24_AsyncIter ==
    itPc = "iterating" =>
        /\ itCur.url = itFirst
        /\ \A k \in DOMAIN itYielded : itYielded[k] # NoUrl

\* C25 (Spec): session.browser never returns a browser that has been
\* closed: after close() the next access gives a browser that is open.
C25_BrowserOpen ==
    (last.op = "browser" /\ last.exc = "none") => browsers[last.b].open

\* C26 (SpecFn): next() raises on no document; when anchors contain a next
\* symbol and the fallback anchor has no href attribute, it returns None.
C26_NextNeverRaises ==
    fOp = "next" => fRet.exc = "none"

\* C27 (SpecPyp): render() of the pyppeteer module leaves the session of the
\* HTML object unchanged, and html.session.close() after a render closes
\* the browser that rendered.
C27_SessionKept ==
    pyR.pc = "returned" =>
        /\ pyHtml.session = pyR.session
        /\ (pyLast = [op |-> "close", exc |-> "none"]) =>
              ~pyBrowsers[pyR.browser].open

\* C28 (SpecSym): add_next_symbol on one HTML object of the pyppeteer module
\* changes the next symbols of that object only: an object it was never
\* called on keeps the default symbols, and next() searches for the default
\* symbols as the module defines them.
C28_OwnSymbols ==
    /\ \A o \in DOMAIN symObjs :
          o \notin symAdded =>
              symLists[symObjs[o].next_symbol] = DEFAULT_NEXT_SYMBOL
    /\ symLast.op = "next" => symLast.symbols = DEFAULT_NEXT_SYMBOL

\* C29 (SpecTree): the parse tree of an object is built at most once and no
\* assignment invalidates it: after html, raw_html or encoding is assigned,
\* find(), xpath() and links answer from the tree of the first parser run,
\* and a tree once built stays until render() replaces the attributes.
C29_Answers ==
    /\ tBuilds <= 1
    /\ tLast.op \in {"find", "xpath", "links"} =>
          /\ tLast.tree.built
          /\ tLast.tree = tFirst
C29_Kept ==
    tObj._lxml.built =>
        \/ tObj'._lxml = tObj._lxml /\ (tObj._pq.built => tObj'._pq = tObj._pq)
        \/ tLast'.op = "render"
C29_TreeOnce == []C29_Answers /\ [][C29_Kept]_vars
C29_Witness ==
    /\ tAssigned
    /\ tLast.op = "find"
    /\ tLast.tree = soup_parse([text |-> "t0", garbled |-> FALSE])
    /\ tObj._html = str_encode("t1", "latin-1")
    /\ tObj._encoding = "latin-1"

\* C30 (SpecFn): find() with first=True returns the first match, and None
\* when nothing matches, never a list; _get_first_or_list of the playwright
\* module returns what that of the pyppeteer module returns, for every list
\* and every value of first.
C30_FirstOrList ==
    fOp = "find_first" =>
        /\ fRet.src = fRet.pyppeteer
        /\ fArg.first => fRet.src.kind # "list"

====
